---------------------------- MODULE Spec2Model ----------------------------
(***************************************************************************)
(* Model of the llvm-opt-passes transformations.                           *)
(*                                                                         *)
(*   SpecFold : ConstantFoldingPass::run on one function, run after run.   *)
(*   SpecVNT  : the ValueNumberTable used through its public interface.    *)
(*   SpecRA   : RedundancyAnalysis::run on one function.                   *)
(*                                                                         *)
(* A function is a sequence of instructions indexed by a stable handle     *)
(* (the instruction pointer), plus the list of handles still linked in the *)
(* function, in layout order.  A value is a constant, an argument or an    *)
(* instruction result.                                                     *)
(***************************************************************************)
EXTENDS Integers, Sequences, FiniteSets, TLC

VARIABLES
    F,              \* handle -> instruction (operands change by replaceAllUsesWith)
    layout,         \* the handles linked in the function, in layout order
    Fn,             \* [succ: block -> successor blocks (block 1 is the entry),
                    \*  nargs: number of arguments, preorder: the dominator tree's]
    pc,             \* position of the running pass
    cur,            \* position of the traversal inside `layout` / the preorder
    \* ---- ConstantFoldingPass
    Candidates,     \* ConstantFoldingVisitor::FoldingCandidates
    Statistics,     \* ConstantFoldingVisitor::Statistics
    ToDelete,       \* the deletion list of the current sweep
    Changed,        \* the flag of the do/while loop
    TotalFolded,    \* folded instructions of the run
    Pass,           \* number of the current iteration of the do/while loop
    Folded,         \* the instructions folded in the run, each with its iteration
    PA,             \* the PreservedAnalyses returned by the last run
    runs,           \* number of runs started
    pre,            \* the function as it was when the current run started
    \* ---- ValueNumberTable / RedundancyAnalysis
    VNT,            \* [NextValueNumber, ValueNumbers, ExpressionTable]
    Result,         \* RedundancyInfo: [RedundantInstructions, Statistics]
    keys,           \* SpecVNT: instruction -> key returned by createExpressionKey
    numbered,       \* SpecVNT: the values in the order of their first numbering
    ret,            \* SpecVNT: the last call and what it returned
    calls,          \* SpecVNT: number of calls made
    \* ---- RedundancyEliminationPass
    Order,          \* the order in which the DenseMap of the RedundancyInfo is iterated
    Stats,          \* RedundancyEliminationPass::Stats
    \* ---- LoopUnrollingPass
    Loops,          \* the loops of the function: what the host analyses report of each
    Config,         \* LoopUnrollConfig
    Analyzed,       \* the LoopUnrollCandidate analyzeLoop returned for each loop
    UnrollCandidates, \* the vector returned by LoopAnalyzer::getCandidates
    LoopStats,      \* LoopUnrollingPass::Stats
    Invoked,        \* the calls of UnrollLoop: loop, ULO.Count, what the guard found, result
    Remarks,        \* the remarks handed to the OptimizationRemarkEmitter
    StaleReads      \* the reads of a field of a Loop after LoopInfo erased it

foldVars == <<Candidates, Statistics, ToDelete, Changed, TotalFolded, Pass, Folded,
               PA, runs, pre>>
vnVars   == <<VNT, Result, keys, numbered, ret, calls>>
elimVars == <<Order, Stats>>
loopVars == <<Loops, Config, Analyzed, UnrollCandidates, LoopStats, Invoked,
               Remarks, StaleReads>>
vars     == <<F, layout, Fn, pc, cur, foldVars, vnVars, elimVars, loopVars>>

-----------------------------------------------------------------------------
(* Bounds of the model *)

\* width of the integer type of the modelled functions
IntBits == 8
\* number of instructions of a generated function
GenLen == 2
\* number of consecutive runs of the constant folder on one function
MaxRuns == 2
\* number of analyzable instructions of a generated function of the analysis
RALen == 2
\* number of interface calls in one SpecVNT behaviour
MaxCalls == 4
\* number of pairs of a RedundancyInfo built by a caller
MaxPairs == 2
\* width of the type `unsigned` of the loop analyzer
UnsignedBits == 12
\* iterations of the do/while loop of the constant folder that are followed
MaxPasses == 8

Modulus == 2 ^ IntBits

-----------------------------------------------------------------------------
(* Values and instructions *)

Const(n) == [k |-> "c", v |-> n]
Arg(n)   == [k |-> "a", v |-> n]
Ref(i)   == [k |-> "i", v |-> i]
NoConst  == [k |-> "none", v |-> 0]

IsConstant(V) == V.k = "c"

Inst(op, ty, ops) ==
    [op |-> op, ty |-> ty, ops |-> ops, pred |-> 0, inb |-> FALSE, idx |-> 0,
     vol |-> FALSE, bb |-> 1]

Cmp(p, a, b)      == [Inst("ICmp", "i1", <<a, b>>) EXCEPT !.pred = p]
InBlock(I, b)     == [I EXCEPT !.bb = b]

isBinaryOperator(op) == op \in {"Add", "Sub", "Mul", "SDiv", "And", "Or", "Xor"}
isCast(op)           == op \in {"ZExt", "Trunc"}
isCmp(op)            == op = "ICmp"

\* comparison predicates (CmpInst::Predicate)
ICMP_EQ  == 32
ICMP_NE  == 33
ICMP_ULT == 36

-----------------------------------------------------------------------------
(* The constant evaluator (ConstantFoldInstruction): numeric evaluation of  *)
(* an instruction whose operands are all constants; NoConst when an         *)
(* operand is not a constant, when the evaluation traps, or when the        *)
(* opcode has no constant value (ret, br, store).                           *)

Signed(n)   == IF n >= Modulus \div 2 THEN n - Modulus ELSE n
Wrap(n)     == n % Modulus
Abs(n)      == IF n < 0 THEN -n ELSE n
\* C-style signed division, truncating towards zero
SDivTrunc(a, b) ==
    LET q == Abs(a) \div Abs(b)
    IN  IF (a < 0) = (b < 0) THEN q ELSE -q

\* bitwise and / or / xor of two naturals below 2^n
RECURSIVE Bitwise(_, _, _, _)
Bitwise(op, a, b, n) ==
    IF n = 0 THEN 0
    ELSE LET x == a % 2
             y == b % 2
             bit == CASE op = "And" -> IF x = 1 /\ y = 1 THEN 1 ELSE 0
                      [] op = "Or"  -> IF x = 1 \/ y = 1 THEN 1 ELSE 0
                      [] OTHER      -> IF x # y THEN 1 ELSE 0
         IN  bit + 2 * Bitwise(op, a \div 2, b \div 2, n - 1)

\* the value an instruction computes from the values a, b, c of its operands;
\* -1 when the opcode yields no value or the computation traps.  An aggregate
\* {i8, i8} is the number low + 16 * high.
Compute(I, a, b, c) ==
    CASE I.op = "Add"    -> Wrap(a + b)
      [] I.op = "Sub"    -> Wrap(a - b + Modulus)
      [] I.op = "Mul"    -> Wrap(a * b)
      [] I.op = "SDiv"   ->
            IF b = 0 \/ (Signed(a) = -(Modulus \div 2) /\ Signed(b) = -1)
            THEN -1
            ELSE Wrap(SDivTrunc(Signed(a), Signed(b)) + Modulus)
      [] I.op \in {"And", "Or", "Xor"} -> Bitwise(I.op, a, b, IntBits)
      [] I.op = "ICmp"   ->
            IF    (I.pred = ICMP_EQ /\ a = b)
               \/ (I.pred = ICMP_NE /\ a # b)
               \/ (I.pred = ICMP_ULT /\ a < b) THEN 1 ELSE 0
      [] I.op = "ZExt"   -> a
      [] I.op = "Trunc"  -> a % 2
      [] I.op = "Select" -> IF a # 0 THEN b ELSE c
      [] I.op = "GEP"    -> Wrap(a + b)
      [] I.op = "Freeze" -> a
      [] I.op = "ExtractValue" -> IF I.idx = 0 THEN a % 16 ELSE a \div 16
      [] OTHER           -> -1

allOperandsConstant(I) == \A j \in 1..Len(I.ops) : IsConstant(I.ops[j])

ConstantFoldInstruction(I) ==
    IF ~allOperandsConstant(I) THEN NoConst
    ELSE LET r == Compute(I, IF Len(I.ops) >= 1 THEN I.ops[1].v ELSE 0,
                             IF Len(I.ops) >= 2 THEN I.ops[2].v ELSE 0,
                             IF Len(I.ops) >= 3 THEN I.ops[3].v ELSE 0)
         IN  IF r = -1 THEN NoConst ELSE Const(r)

-----------------------------------------------------------------------------
(* ConstantFoldingVisitor *)

\* the family the InstVisitor dispatches an opcode to
VisitFamily(op) ==
    CASE isBinaryOperator(op) -> "BinaryOpsFound"
      [] isCast(op)           -> "CastsFound"
      [] isCmp(op)            -> "ComparisonsFound"
      [] op = "Select"        -> "SelectsFound"
      [] op = "GEP"           -> "GEPsFound"
      [] OTHER                -> "none"

visitBinaryOperator(BO) ==
    /\ IsConstant(BO.ops[1]) /\ IsConstant(BO.ops[2])
    /\ ConstantFoldInstruction(BO) # NoConst

visitCastInst(CI) ==
    IsConstant(CI.ops[1]) /\ ConstantFoldInstruction(CI) # NoConst

visitCmpInst(CI) ==
    /\ IsConstant(CI.ops[1]) /\ IsConstant(CI.ops[2])
    /\ ConstantFoldInstruction(CI) # NoConst

visitSelectInst(SI) ==
    IsConstant(SI.ops[1]) /\ ConstantFoldInstruction(SI) # NoConst

visitGetElementPtrInst(GEP) ==
    allOperandsConstant(GEP) /\ ConstantFoldInstruction(GEP) # NoConst

\* the default of the visitor: every other opcode
visitInstruction(I) == FALSE

visit(I) ==
    CASE VisitFamily(I.op) = "BinaryOpsFound"   -> visitBinaryOperator(I)
      [] VisitFamily(I.op) = "CastsFound"       -> visitCastInst(I)
      [] VisitFamily(I.op) = "ComparisonsFound" -> visitCmpInst(I)
      [] VisitFamily(I.op) = "SelectsFound"     -> visitSelectInst(I)
      [] VisitFamily(I.op) = "GEPsFound"        -> visitGetElementPtrInst(I)
      [] OTHER                                  -> visitInstruction(I)

NoStats ==
    [BinaryOpsFound |-> 0, CastsFound |-> 0, ComparisonsFound |-> 0,
     SelectsFound |-> 0, GEPsFound |-> 0]

-----------------------------------------------------------------------------
(* ConstantFoldingPass *)

TryFoldIgnoringTraps(I) ==
    IF I.op = "SDiv" /\ allOperandsConstant(I) /\ ConstantFoldInstruction(I) = NoConst
    THEN Const(0)
    ELSE ConstantFoldInstruction(I)

tryFold(I) == ConstantFoldInstruction(I)

\* Value::replaceAllUsesWith: every operand that is `old` becomes `new`
replaceAllUsesWith(fn, old, new) ==
    [h \in DOMAIN fn |->
        [fn[h] EXCEPT !.ops = [j \in DOMAIN fn[h].ops |->
                                  IF fn[h].ops[j] = old THEN new ELSE fn[h].ops[j]]]]

\* the deletion loop left out
eraseNone(lay, del) == lay

\* Instruction::eraseFromParent for a list of instructions
RECURSIVE eraseAll(_, _)
eraseAll(lay, del) ==
    IF lay = <<>> THEN <<>>
    ELSE IF \E j \in DOMAIN del : del[j] = Head(lay)
         THEN eraseAll(Tail(lay), del)
         ELSE <<Head(lay)>> \o eraseAll(Tail(lay), del)

\* the condition of the do/while loop of ConstantFoldingPass::run
SingleSweep(changed) == FALSE

RepeatSweep(changed) == changed

-----------------------------------------------------------------------------
(* The functions the constant folder is run on.  The layout order of a     *)
(* function need not be a dominance order (a block may be laid out before  *)
(* a block that dominates it), so an operand may name an instruction that  *)
(* comes later in the layout; the operand graph is acyclic.                *)

OperandRefs(fn, h) == {fn[h].ops[j].v : j \in {n \in DOMAIN fn[h].ops : fn[h].ops[n].k = "i"}}

RECURSIVE ReachableRefs(_, _, _)
ReachableRefs(fn, hs, n) ==
    IF n = 0 THEN hs
    ELSE ReachableRefs(fn, hs \cup UNION {OperandRefs(fn, h) : h \in hs}, n - 1)

Acyclic(fn) ==
    \A h \in DOMAIN fn : h \notin ReachableRefs(fn, OperandRefs(fn, h), Len(fn))

GenOperands(i) == {Const(0), Const(6), Arg(1)} \cup {Ref(j) : j \in (1..GenLen) \ {i}}

GenInsts(i) ==
         {Inst(op, "i8", <<a, b>>) :
             op \in {"Add", "SDiv"}, a \in GenOperands(i), b \in {Const(0), Const(3)}}
    \cup {Inst("Freeze", "i8", <<a>>) : a \in GenOperands(i)}

GeneratedFunctions ==
    {fn \in [1..GenLen -> UNION {GenInsts(i) : i \in 1..GenLen}] :
        (\A i \in 1..GenLen : fn[i] \in GenInsts(i)) /\ Acyclic(fn)}

\* a = 10 + 20; b = a * 2; c = b / 3; return c   (test/benchmark.c)
ConstantChain ==
    << Inst("Add",  "i8", <<Const(10), Const(20)>>),
       Inst("Mul",  "i8", <<Ref(1), Const(2)>>),
       Inst("SDiv", "i8", <<Ref(2), Const(3)>>),
       Inst("Ret",  "void", <<Ref(3)>>) >>

FoldSamples ==
    { ConstantChain,
      \* comparison, select and cast on constants
      << Cmp(ICMP_ULT, Const(1), Const(2)),
         Inst("Select", "i8", <<Ref(1), Const(7), Const(9)>>),
         Inst("Trunc", "i1", <<Ref(2)>>),
         Inst("ZExt", "i8", <<Ref(3)>>),
         Inst("Ret", "void", <<Ref(4)>>) >>,
      \* a select whose condition alone is constant, address arithmetic
      << Inst("Select", "i8", <<Const(1), Arg(1), Const(9)>>),
         Inst("GEP", "ptr", <<Const(16), Const(4)>>),
         Inst("Store", "void", <<Ref(1), Ref(2)>>),
         Inst("Ret", "void", <<>>) >>,
      \* a division by a constant zero next to a foldable instruction
      << Inst("SDiv", "i8", <<Const(6), Const(0)>>),
         Inst("Xor", "i8", <<Const(6), Const(3)>>),
         Inst("Sub", "i8", <<Ref(1), Ref(2)>>),
         Inst("Ret", "void", <<Ref(3)>>) >>,
      \* only an instruction the visitor has no case for
      << Inst("Freeze", "i8", <<Const(5)>>),
         Inst("Ret", "void", <<Ref(1)>>) >> }

FoldFunctions == FoldSamples \cup GeneratedFunctions

NoFn == [succ |-> [b \in {1} |-> {}], nargs |-> 1, preorder |-> <<1>>]
NoVNT == [NextValueNumber |-> 1, ValueNumbers |-> <<>>, ExpressionTable |-> <<>>]
NoElimStats == [InstructionsEliminated |-> 0, FunctionsProcessed |-> 0]
NoResult == [RedundantInstructions |-> <<>>,
             Statistics |-> [TotalInstructions |-> 0, RedundantInstructions |-> 0,
                             UniqueExpressions |-> 0]]

\* LoopUnrollConfig with its default member initializers
DefaultConfig ==
    [FullUnrollMaxCount |-> 8, FullUnrollMaxInstructions |-> 100,
     PartialUnrollFactor |-> 4, MaxPartialUnrollFactor |-> 8,
     AllowRuntimeUnroll |-> TRUE, RuntimeUnrollMinTripCount |-> 4,
     UnrollLoopsWithCalls |-> FALSE, MaxUnrolledSize |-> 400]

NoLoopStats ==
    [LoopsAnalyzed |-> 0, LoopsFullyUnrolled |-> 0, LoopsPartiallyUnrolled |-> 0,
     LoopsRuntimeUnrolled |-> 0, LoopsSkipped |-> 0]

\* the state of the loop unroller in the specifications of the other passes
NoLoopState ==
    /\ Loops = <<>> /\ Config = DefaultConfig /\ Analyzed = <<>>
    /\ UnrollCandidates = <<>> /\ LoopStats = NoLoopStats /\ Invoked = <<>>
    /\ Remarks = <<>> /\ StaleReads = <<>>

-----------------------------------------------------------------------------
(* SpecFold: ConstantFoldingPass::run, one instruction of a traversal per   *)
(* step.                                                                    *)

InitFold ==
    /\ F \in FoldFunctions
    /\ layout = [i \in 1..Len(F) |-> i]
    /\ Fn = NoFn
    /\ pc = "visit"
    /\ cur = 1
    /\ Candidates = <<>>
    /\ Statistics = NoStats
    /\ ToDelete = <<>>
    /\ Changed = FALSE
    /\ TotalFolded = 0 /\ Pass = 0 /\ Folded = <<>>
    /\ PA = "pending"
    /\ runs = 1
    /\ pre = [F |-> F, layout |-> layout]
    /\ VNT = NoVNT /\ Result = NoResult
    /\ keys = <<>> /\ numbered = <<>> /\ ret = <<>> /\ calls = 0
    /\ Order = <<>> /\ Stats = NoElimStats
    /\ NoLoopState

\* Phase 1: the visitor looks at the next instruction
Visit ==
    /\ pc = "visit" /\ cur <= Len(layout)
    /\ LET h == layout[cur]
       IN  IF visit(F[h])
           THEN /\ Candidates' = Append(Candidates, h)
                /\ Statistics' = [Statistics EXCEPT ![VisitFamily(F[h].op)] = @ + 1]
           ELSE UNCHANGED <<Candidates, Statistics>>
    /\ cur' = cur + 1
    /\ UNCHANGED <<F, layout, Fn, pc, ToDelete, Changed, TotalFolded, Pass, Folded, PA, runs, pre, vnVars, elimVars>>
    /\ UNCHANGED loopVars

\* the end of phase 1: return early, or enter the do/while loop
VisitEnd ==
    /\ pc = "visit" /\ cur > Len(layout)
    /\ IF Candidates = <<>>
       THEN /\ pc' = "done" /\ PA' = "all"
            /\ UNCHANGED <<cur, Changed, TotalFolded, Pass, Folded, ToDelete>>
       ELSE /\ pc' = "sweep" /\ cur' = 1
            /\ Changed' = FALSE /\ TotalFolded' = 0 /\ Pass' = 1 /\ Folded' = <<>> /\ ToDelete' = <<>>
            /\ UNCHANGED PA
    /\ UNCHANGED <<F, layout, Fn, Candidates, Statistics, runs, pre, vnVars, elimVars>>
    /\ UNCHANGED loopVars

\* Phase 2: tryFold on the next instruction of the sweep
FoldOne ==
    /\ pc = "sweep" /\ cur <= Len(layout)
    /\ LET h == layout[cur]
           C == tryFold(F[h])
       IN  IF C # NoConst
           THEN /\ F' = replaceAllUsesWith(F, Ref(h), C)
                /\ ToDelete' = Append(ToDelete, h)
                /\ Changed' = TRUE
                /\ TotalFolded' = TotalFolded + 1
                /\ Folded' = Append(Folded, [I |-> h, Pass |-> Pass])
                /\ UNCHANGED Pass
           ELSE UNCHANGED <<F, ToDelete, Changed, TotalFolded, Pass, Folded>>
    /\ cur' = cur + 1
    /\ UNCHANGED <<layout, Fn, pc, Candidates, Statistics, PA, runs, pre, vnVars, elimVars>>
    /\ UNCHANGED loopVars

\* Phase 3 and the loop condition: erase the deletion list, sweep again or return
EndOfSweep ==
    /\ pc = "sweep" /\ cur > Len(layout)
    /\ layout' = eraseAll(layout, ToDelete)
    /\ IF RepeatSweep(Changed)
       THEN /\ Pass < MaxPasses
            /\ cur' = 1 /\ Changed' = FALSE /\ ToDelete' = <<>>
            /\ Pass' = Pass + 1
            /\ UNCHANGED <<pc, PA>>
       ELSE /\ pc' = "done"
            /\ PA' = IF TotalFolded > 0 THEN "none" ELSE "all"
            /\ UNCHANGED <<cur, Changed, ToDelete, Pass>>
    /\ UNCHANGED <<F, Fn, Candidates, Statistics, TotalFolded, Folded, runs, pre, vnVars, elimVars>>
    /\ UNCHANGED loopVars

\* the pass is run again on the function it returned
RunAgain ==
    /\ pc = "done" /\ runs < MaxRuns
    /\ runs' = runs + 1
    /\ pre' = [F |-> F, layout |-> layout]
    /\ pc' = "visit" /\ cur' = 1
    /\ Candidates' = <<>> /\ Statistics' = NoStats
    /\ ToDelete' = <<>> /\ Changed' = FALSE /\ TotalFolded' = 0 /\ Pass' = 0 /\ Folded' = <<>>
    /\ PA' = "pending"
    /\ UNCHANGED <<F, layout, Fn, vnVars, elimVars>>
    /\ UNCHANGED loopVars

NextFold == Visit \/ VisitEnd \/ FoldOne \/ EndOfSweep \/ RunAgain

SpecFold == InitFold /\ [][NextFold]_vars

\* the run goes on as long as it has a next step
SpecFoldFair == SpecFold /\ WF_vars(NextFold)

-----------------------------------------------------------------------------
(* Properties of the constant folder *)

Linked == {layout[i] : i \in DOMAIN layout}

\* C1: I5, fixed point: when ConstantFoldingPass::run has returned, no
\* instruction linked in the function has all-constant operands and a defined
\* constant evaluation, whatever its opcode.
C1_FixedPoint ==
    pc = "done" => \A h \in Linked : ConstantFoldInstruction(F[h]) = NoConst

\* C2: a second run right after a first one changes no instruction, erases
\* nothing, folds nothing and reports that all analyses are preserved.
C2_Idempotent ==
    runs >= 2 =>
        /\ F = pre.F /\ layout = pre.layout
        /\ ToDelete = <<>> /\ TotalFolded = 0
        /\ pc = "done" => PA = "all"

\* the second run has returned on a function the first run folded
C2_Witness ==
    runs = 2 /\ pc = "done" /\ Len(layout) < Len(F) /\ Len(layout) > 0

\* the constant an instruction of the function `fn` evaluates to when its leaf
\* operands are all constants and every evaluation on the way is defined
RECURSIVE ChainValue(_, _, _)
ChainValue(fn, h, n) ==
    IF n = 0 THEN NoConst
    ELSE LET val(V) == IF V.k = "i" THEN ChainValue(fn, V.v, n - 1)
                       ELSE IF V.k = "c" THEN V ELSE NoConst
         IN  ConstantFoldInstruction(
                 [fn[h] EXCEPT !.ops = [j \in DOMAIN fn[h].ops |-> val(fn[h].ops[j])]])

\* C3: one run on a = 10 + 20; b = a * 2; c = b / 3; return c leaves only the
\* return, of the constant 20; in general one run erases every instruction of
\* a chain of defined evaluations over constant leaves, and every remaining
\* user of the chain has the evaluated constant as its operand.
C3_ChainFolded ==
    (runs = 1 /\ pc = "done") =>
        /\ pre.F = ConstantChain => (layout = <<4>> /\ F[4].ops = <<Const(20)>>)
        /\ \A h \in DOMAIN pre.F :
              LET C == ChainValue(pre.F, h, Len(pre.F))
              IN  C # NoConst =>
                    /\ h \notin Linked
                    /\ \A u \in Linked : \A j \in DOMAIN F[u].ops :
                          pre.F[u].ops[j] = Ref(h) => F[u].ops[j] = C

\* C4: an instruction whose constant evaluation fails is left untouched by
\* every step of the pass: it stays linked and every use of it stays a use of
\* it; and the pass returns a normal result.
C4_FailedEvaluationUntouched ==
    [][ /\ \A h \in Linked :
              ConstantFoldInstruction(F[h]) = NoConst =>
                 /\ h \in {layout'[i] : i \in DOMAIN layout'}
                 /\ \A u \in DOMAIN F : \A j \in DOMAIN F[u].ops :
                       F[u].ops[j] = Ref(h) => F'[u].ops[j] = Ref(h)
        /\ pc' = "done" => PA' \in {"all", "none"} ]_vars

\* the pass has folded something and returned, next to a division of a
\* constant by the constant zero that still has its user
C4_Witness ==
    /\ pc = "done" /\ PA = "none"
    /\ \E h \in Linked :
          /\ F[h].op = "SDiv" /\ allOperandsConstant(F[h]) /\ F[h].ops[2] = Const(0)
          /\ \E u \in Linked : \E j \in DOMAIN F[u].ops : F[u].ops[j] = Ref(h)

-----------------------------------------------------------------------------
(* ValueNumberTable.  A table is the record                                 *)
(*   [NextValueNumber, ValueNumbers, ExpressionTable];                      *)
(* an operation returns the table it leaves together with its result.       *)

isCommutative(Opcode) ==
    Opcode \in {"Add", "FAdd", "Mul", "FMul", "And", "Or", "Xor"}

KeepOperandOrder(Operands, Opcode) == Operands

canonicalizeOperands(Operands, Opcode) ==
    IF isCommutative(Opcode) /\ Len(Operands) = 2 /\ Operands[1] > Operands[2]
    THEN <<Operands[2], Operands[1]>>
    ELSE Operands

getValueNumberNoIncrement(T, V) ==
    IF V \in DOMAIN T.ValueNumbers
    THEN [T |-> T, VN |-> T.ValueNumbers[V]]
    ELSE [T  |-> [T EXCEPT !.ValueNumbers = (V :> T.NextValueNumber) @@ @],
          VN |-> T.NextValueNumber]

getValueNumber(T, V) ==
    IF V \in DOMAIN T.ValueNumbers
    THEN [T |-> T, VN |-> T.ValueNumbers[V]]
    ELSE [T  |-> [T EXCEPT !.NextValueNumber = @ + 1,
                           !.ValueNumbers = (V :> T.NextValueNumber) @@ @],
          VN |-> T.NextValueNumber]

lookupValueNumber(T, V) ==
    IF V \in DOMAIN T.ValueNumbers THEN T.ValueNumbers[V] ELSE 0

\* the loop over I->operands() of createExpressionKey
RECURSIVE numberOperands(_, _)
numberOperands(T, ops) ==
    IF ops = <<>> THEN [T |-> T, VNs |-> <<>>]
    ELSE LET first == getValueNumber(T, Head(ops))
             rest  == numberOperands(first.T, Tail(ops))
         IN  [T |-> rest.T, VNs |-> <<first.VN>> \o rest.VNs]

createExpressionKey(T, I) ==
    LET n == numberOperands(T, I.ops)
    IN  [T   |-> n.T,
         Key |-> [Opcode              |-> I.op,
                  ResultType          |-> I.ty,
                  OperandValueNumbers |-> canonicalizeOperands(n.VNs, I.op),
                  Predicate           |-> IF isCmp(I.op) THEN I.pred ELSE 0,
                  InBounds            |-> IF I.op = "GEP" THEN I.inb ELSE FALSE]]

-----------------------------------------------------------------------------
(* The dominator tree of the host, from the control-flow graph.             *)

Blocks(fn) == DOMAIN fn.succ

\* the blocks reachable from the entry on paths that avoid block `a`
RECURSIVE ReachAvoiding(_, _, _, _)
ReachAvoiding(fn, a, seen, n) ==
    IF n = 0 THEN seen
    ELSE ReachAvoiding(fn, a,
             seen \cup (UNION {fn.succ[b] : b \in seen} \ {a}), n - 1)

ReachableBlocks(fn) == ReachAvoiding(fn, 0, {1}, Cardinality(Blocks(fn)))

\* DominatorTree::dominates(BasicBlock, BasicBlock), for reachable blocks
BlockDominates(fn, a, b) ==
    \/ a = b
    \/ a = 1
    \/ b \notin ReachAvoiding(fn, a, {1}, Cardinality(Blocks(fn)))

PositionOf(lay, h) == CHOOSE i \in DOMAIN lay : lay[i] = h

\* DominatorTree::dominates(Instruction Def, Instruction User), both in
\* reachable blocks and neither an invoke nor a phi
dominates(fn, insts, lay, Def, User) ==
    IF Def = User THEN FALSE
    ELSE IF insts[Def].bb # insts[User].bb
         THEN BlockDominates(fn, insts[Def].bb, insts[User].bb)
         ELSE PositionOf(lay, Def) < PositionOf(lay, User)

\* the orders depth_first(DT.getRootNode()) can visit the blocks in: the root
\* first, and the blocks a block dominates right after it
IsPreorder(fn, p) ==
    /\ p[1] = 1
    /\ \A i \in DOMAIN p :
          LET sub == {b \in ReachableBlocks(fn) : BlockDominates(fn, p[i], b)}
          IN  {p[j] : j \in i..(i + Cardinality(sub) - 1)} = sub

Orderings(S) ==
    {p \in [1..Cardinality(S) -> S] : \A i, j \in DOMAIN p : i # j => p[i] # p[j]}

Preorders(succ) ==
    LET fn == [succ |-> succ]
    IN  {p \in Orderings(ReachableBlocks(fn)) : IsPreorder(fn, p)}

-----------------------------------------------------------------------------
(* ValueNumberTable, continued *)

\* the first instruction of a bucket, in insertion order, that is not the
\* query point; 0 is the null pointer
RECURSIVE firstOther(_, _)
firstOther(bucket, QueryPoint) ==
    IF bucket = <<>> THEN 0
    ELSE IF Head(bucket) # QueryPoint THEN Head(bucket)
         ELSE firstOther(Tail(bucket), QueryPoint)

findAvailableIgnoringDominance(T, Key, QueryPoint, fn, insts, lay) ==
    IF Key \notin DOMAIN T.ExpressionTable THEN 0
    ELSE firstOther(T.ExpressionTable[Key], QueryPoint)

\* a loop over a bucket that finds nothing
noneAvailable(bucket, QueryPoint, fn, insts, lay) == 0

\* the loop over a bucket: the first instruction, in insertion order, that is
\* not the query point and dominates it; 0 is the null pointer
RECURSIVE firstAvailable(_, _, _, _, _)
firstAvailable(bucket, QueryPoint, fn, insts, lay) ==
    IF bucket = <<>> THEN 0
    ELSE IF /\ Head(bucket) # QueryPoint
            /\ dominates(fn, insts, lay, Head(bucket), QueryPoint)
         THEN Head(bucket)
         ELSE firstAvailable(Tail(bucket), QueryPoint, fn, insts, lay)

findAvailableValue(T, Key, QueryPoint, fn, insts, lay) ==
    IF Key \notin DOMAIN T.ExpressionTable THEN 0
    ELSE firstAvailable(T.ExpressionTable[Key], QueryPoint, fn, insts, lay)

addExpression(T, Key, I) ==
    [T EXCEPT !.ExpressionTable =
        IF Key \in DOMAIN @ THEN [@ EXCEPT ![Key] = Append(@, I)]
        ELSE (Key :> <<I>>) @@ @]

clear(T) == [NextValueNumber |-> 1, ValueNumbers |-> <<>>, ExpressionTable |-> <<>>]

-----------------------------------------------------------------------------
(* RedundancyAnalysis *)

isTerminator(I) == I.op \in {"Ret", "Br", "Invoke"}

\* Instruction::mayHaveSideEffects: writes to memory (stores, calls, volatile
\* accesses) or may not return
mayHaveSideEffects(I) ==
    I.op \in {"Store", "Call", "Invoke"} \/ (I.op = "Load" /\ I.vol)

isAnalyzableWithLoads(I) ==
    /\ I.op # "Phi"
    /\ ~isTerminator(I)
    /\ ~mayHaveSideEffects(I)
    /\ I.op # "Alloca"
    /\ I.op \notin {"Call", "Invoke"}

isAnalyzable(I) ==
    /\ I.op # "Phi"
    /\ ~isTerminator(I)
    /\ ~mayHaveSideEffects(I)
    /\ ~I.vol
    /\ I.op \notin {"Load", "Store"}
    /\ I.op # "Alloca"
    /\ I.op \notin {"Call", "Invoke"}

\* the instructions of block b, bottom to top
RECURSIVE Reversed(_)
Reversed(seq) == IF seq = <<>> THEN <<>> ELSE Append(Reversed(Tail(seq)), Head(seq))

BlockInstsBottomUp(insts, lay, b) ==
    Reversed(SelectSeq(lay, LAMBDA h : insts[h].bb = b))

\* the instructions of block b, top to bottom
BlockInsts(insts, lay, b) == SelectSeq(lay, LAMBDA h : insts[h].bb = b)

\* the instructions in the order RedundancyAnalysis::run processes them
RECURSIVE ProcessingOrder(_, _, _)
ProcessingOrder(insts, lay, blocks) ==
    IF blocks = <<>> THEN <<>>
    ELSE BlockInsts(insts, lay, Head(blocks)) \o ProcessingOrder(insts, lay, Tail(blocks))

\* the loop over F.args() of RedundancyAnalysis::run
RECURSIVE numberArguments(_, _, _)
numberArguments(T, n, nargs) ==
    IF n > nargs THEN T
    ELSE numberArguments(getValueNumber(T, Arg(n)).T, n + 1, nargs)

\* a loop body that inserts every analyzable instruction into the table
processInstructionInsertingAll(T, R, h, fn, insts, lay) ==
    LET counted == [R EXCEPT !.Statistics.TotalInstructions = @ + 1]
    IN  IF ~isAnalyzable(insts[h])
        THEN [T |-> getValueNumber(T, Ref(h)).T, R |-> counted]
        ELSE LET k == createExpressionKey(T, insts[h])
                 Available == findAvailableValue(k.T, k.Key, h, fn, insts, lay)
                 added == getValueNumber(addExpression(k.T, k.Key, h), Ref(h)).T
             IN  IF Available # 0
                 THEN [T |-> added,
                       R |-> [counted EXCEPT
                                !.RedundantInstructions = (h :> Available) @@ @,
                                !.Statistics.RedundantInstructions = @ + 1]]
                 ELSE [T |-> added,
                       R |-> [counted EXCEPT !.Statistics.UniqueExpressions = @ + 1]]

\* the body of the loop of processBlock for instruction h: the table and the
\* RedundancyInfo it leaves
processInstruction(T, R, h, fn, insts, lay) ==
    LET counted == [R EXCEPT !.Statistics.TotalInstructions = @ + 1]
    IN  IF ~isAnalyzable(insts[h])
        THEN [T |-> getValueNumber(T, Ref(h)).T, R |-> counted]
        ELSE LET k == createExpressionKey(T, insts[h])
                 Available == findAvailableValue(k.T, k.Key, h, fn, insts, lay)
             IN  IF Available # 0
                 THEN [T |-> getValueNumber(k.T, Ref(h)).T,
                       R |-> [counted EXCEPT
                                !.RedundantInstructions = (h :> Available) @@ @,
                                !.Statistics.RedundantInstructions = @ + 1]]
                 ELSE [T |-> getValueNumber(addExpression(k.T, k.Key, h), Ref(h)).T,
                       R |-> [counted EXCEPT !.Statistics.UniqueExpressions = @ + 1]]

-----------------------------------------------------------------------------
(* The functions the analysis is run on *)

Straight == [b \in {1} |-> {}]
Diamond  == [b \in 1..4 |-> CASE b = 1 -> {2, 3} [] b = 4 -> {} [] OTHER -> {4}]
Fork     == [b \in 1..3 |-> IF b = 1 THEN {2, 3} ELSE {}]

Identity(n) == [i \in 1..n |-> i]
Sample(insts, succ, nargs) ==
    [F |-> insts, layout |-> Identity(Len(insts)), succ |-> succ, nargs |-> nargs]

\* u = x + y; v = y + x; return u + v
CommutativeEquivalence ==
    Sample(<< Inst("Add", "i8", <<Arg(1), Arg(2)>>),
              Inst("Add", "i8", <<Arg(2), Arg(1)>>),
              Inst("Add", "i8", <<Ref(1), Ref(2)>>),
              Inst("Ret", "void", <<Ref(3)>>) >>, Straight, 2)

\* p = x + y in block 2, q = x + y in block 3, neither block dominating the
\* other; x * y in the entry and again in block 2
DominanceBlocks ==
    Sample(<< Inst("Mul", "i8", <<Arg(1), Arg(2)>>),
              Inst("Br", "void", <<>>),
              InBlock(Inst("Add", "i8", <<Arg(1), Arg(2)>>), 2),
              InBlock(Inst("Mul", "i8", <<Arg(1), Arg(2)>>), 2),
              InBlock(Inst("Br", "void", <<>>), 2),
              InBlock(Inst("Add", "i8", <<Arg(1), Arg(2)>>), 3),
              InBlock(Inst("Br", "void", <<>>), 3),
              InBlock(Inst("Phi", "i8", <<Ref(3), Ref(6)>>), 4),
              InBlock(Inst("Add", "i8", <<Arg(1), Arg(2)>>), 4),
              InBlock(Inst("Ret", "void", <<Ref(8)>>), 4) >>, Diamond, 2)

\* x + y in both branches of a diamond, twice in the first, and again after
\* the join; x * y in the entry and in the first branch
SiblingProviders ==
    Sample(<< Inst("Mul", "i8", <<Arg(1), Arg(2)>>),
              Inst("Br", "void", <<>>),
              InBlock(Inst("Add", "i8", <<Arg(1), Arg(2)>>), 2),
              InBlock(Inst("Add", "i8", <<Arg(1), Arg(2)>>), 2),
              InBlock(Inst("Mul", "i8", <<Arg(1), Arg(2)>>), 2),
              InBlock(Inst("Br", "void", <<>>), 2),
              InBlock(Inst("Add", "i8", <<Arg(1), Arg(2)>>), 3),
              InBlock(Inst("Br", "void", <<>>), 3),
              InBlock(Inst("Add", "i8", <<Arg(1), Arg(2)>>), 4),
              InBlock(Inst("Add", "i8", <<Arg(1), Arg(2)>>), 4),
              InBlock(Inst("Ret", "void", <<Ref(10)>>), 4) >>, Diamond, 2)

\* two users that differ only in using a redundant instruction or its
\* replacement
UsersOfRedundant ==
    Sample(<< Inst("Add", "i8", <<Arg(1), Arg(2)>>),
              Inst("Add", "i8", <<Arg(1), Arg(2)>>),
              Inst("Mul", "i8", <<Ref(1), Const(2)>>),
              Inst("Mul", "i8", <<Ref(2), Const(2)>>),
              Inst("Sub", "i8", <<Ref(3), Ref(4)>>),
              Inst("Ret", "void", <<Ref(5)>>) >>, Straight, 2)

\* the two fields of an aggregate argument {i8, i8}
ExtractFields ==
    Sample(<< [Inst("ExtractValue", "i8", <<Arg(1)>>) EXCEPT !.idx = 0],
              [Inst("ExtractValue", "i8", <<Arg(1)>>) EXCEPT !.idx = 1],
              Inst("Sub", "i8", <<Ref(1), Ref(2)>>),
              Inst("Ret", "void", <<Ref(3)>>) >>, Straight, 1)

\* a = *p; b = *p with volatile loads, next to a call, an alloca and a store
VolatileLoads ==
    Sample(<< [Inst("Load", "i8", <<Arg(1)>>) EXCEPT !.vol = TRUE],
              [Inst("Load", "i8", <<Arg(1)>>) EXCEPT !.vol = TRUE],
              Inst("Load", "i8", <<Arg(1)>>),
              Inst("Load", "i8", <<Arg(1)>>),
              Inst("Add", "i8", <<Ref(1), Ref(2)>>),
              Inst("Add", "i8", <<Ref(3), Ref(4)>>),
              Inst("Alloca", "ptr", <<Const(1)>>),
              Inst("Call", "i8", <<Ref(5)>>),
              Inst("Store", "void", <<Ref(8), Ref(7)>>),
              Inst("Ret", "void", <<Ref(6)>>) >>, Straight, 1)

\* comparisons that differ in the predicate, address computations that
\* differ in the in-bounds flag, casts that differ in the result type
PredicatesAndFlags ==
    Sample(<< Cmp(ICMP_EQ, Arg(1), Arg(2)),
              Cmp(ICMP_NE, Arg(1), Arg(2)),
              Cmp(ICMP_EQ, Arg(1), Arg(2)),
              [Inst("GEP", "ptr", <<Arg(1), Arg(2)>>) EXCEPT !.inb = TRUE],
              Inst("GEP", "ptr", <<Arg(1), Arg(2)>>),
              [Inst("GEP", "ptr", <<Arg(1), Arg(2)>>) EXCEPT !.inb = TRUE],
              Inst("ZExt", "i16", <<Ref(1)>>),
              Inst("ZExt", "i32", <<Ref(1)>>),
              Inst("Ret", "void", <<Ref(6)>>) >>, Straight, 2)

\* x + y in the entry and again in blocks 2 and 3, with a user in block 2
\* and a phi of both in block 4
CrossBlockUse ==
    Sample(<< Inst("Add", "i8", <<Arg(1), Arg(2)>>),
              Inst("Br", "void", <<>>),
              InBlock(Inst("Add", "i8", <<Arg(1), Arg(2)>>), 2),
              InBlock(Inst("Mul", "i8", <<Ref(3), Arg(1)>>), 2),
              InBlock(Inst("Br", "void", <<>>), 2),
              InBlock(Inst("Add", "i8", <<Arg(1), Arg(2)>>), 3),
              InBlock(Inst("Br", "void", <<>>), 3),
              InBlock(Inst("Phi", "i8", <<Ref(3), Ref(6)>>), 4),
              InBlock(Inst("Ret", "void", <<Ref(8)>>), 4) >>, Diamond, 2)

RASamples ==
    {CommutativeEquivalence, DominanceBlocks, UsersOfRedundant, ExtractFields,
     VolatileLoads, PredicatesAndFlags, CrossBlockUse, SiblingProviders}

\* generated: RALen additions and subtractions of an argument or an earlier
\* dominating instruction and the second argument or an earlier dominating
\* instruction, spread over the blocks of Fork, each block closed by a
\* terminator
GenRAInsts ==
    {InBlock(Inst(op, "i8", <<a, b>>), blk) :
        op \in {"Add", "Sub"},
        a \in {Arg(1), Arg(2)} \cup {Ref(j) : j \in 1..(RALen - 1)},
        b \in {Arg(2)} \cup {Ref(j) : j \in 1..(RALen - 1)},
        blk \in DOMAIN Fork}

GenRABodies ==
    {fn \in [1..RALen -> GenRAInsts] :
        /\ \A i \in 1..(RALen - 1) : fn[i].bb <= fn[i + 1].bb
        /\ \A i \in 1..RALen : \A j \in OperandRefs(fn, i) :
              j < i /\ BlockDominates([succ |-> Fork], fn[j].bb, fn[i].bb)}

Terminators ==
    [b \in DOMAIN Fork |-> InBlock(Inst(IF b = 1 THEN "Br" ELSE "Ret", "void", <<>>), b)]

GenRAFunction(body) ==
    LET insts == body \o Terminators
        blockLayout(b) ==
            SelectSeq(Identity(RALen), LAMBDA h : body[h].bb = b) \o <<RALen + b>>
    IN  [F |-> insts,
         layout |-> blockLayout(1) \o blockLayout(2) \o blockLayout(3),
         succ |-> Fork, nargs |-> 2]

RAFunctions == RASamples \cup {GenRAFunction(body) : body \in GenRABodies}

-----------------------------------------------------------------------------
(* SpecRA: RedundancyAnalysis::run, one instruction of processBlock per     *)
(* step.                                                                    *)

InitRA ==
    /\ \E s \in RAFunctions : \E p \in Preorders(s.succ) :
          /\ F = s.F
          /\ layout = s.layout
          /\ Fn = [succ |-> s.succ, nargs |-> s.nargs, preorder |-> p]
    /\ pc = "ra_args"
    /\ cur = 1
    /\ VNT = NoVNT
    /\ Result = NoResult
    /\ Candidates = <<>> /\ Statistics = NoStats /\ ToDelete = <<>>
    /\ Changed = FALSE /\ TotalFolded = 0 /\ Pass = 0 /\ Folded = <<>> /\ PA = "pending" /\ runs = 0
    /\ pre = <<>>
    /\ keys = <<>> /\ numbered = <<>> /\ ret = <<>> /\ calls = 0
    /\ Order = <<>> /\ Stats = NoElimStats
    /\ NoLoopState

\* value numbers for the function arguments
NumberArguments ==
    /\ pc = "ra_args"
    /\ VNT' = numberArguments(VNT, 1, Fn.nargs)
    /\ pc' = "ra_blocks"
    /\ UNCHANGED <<F, layout, Fn, cur, foldVars, elimVars, Result, keys, numbered, ret, calls>>
    /\ UNCHANGED loopVars

\* the next instruction, blocks in dominator-tree preorder, top to bottom
ProcessInstruction ==
    /\ pc = "ra_blocks"
    /\ cur <= Len(ProcessingOrder(F, layout, Fn.preorder))
    /\ LET h == ProcessingOrder(F, layout, Fn.preorder)[cur]
           r == processInstruction(VNT, Result, h, Fn, F, layout)
       IN  VNT' = r.T /\ Result' = r.R
    /\ cur' = cur + 1
    /\ UNCHANGED <<F, layout, Fn, pc, foldVars, elimVars, keys, numbered, ret, calls>>
    /\ UNCHANGED loopVars

\* the analysis returns its RedundancyInfo
AnalysisReturns ==
    /\ pc = "ra_blocks"
    /\ cur > Len(ProcessingOrder(F, layout, Fn.preorder))
    /\ pc' = "ra_done"
    /\ UNCHANGED <<F, layout, Fn, cur, foldVars, vnVars, elimVars>>
    /\ UNCHANGED loopVars

NextRA == NumberArguments \/ ProcessInstruction \/ AnalysisReturns

SpecRA == InitRA /\ [][NextRA]_vars

-----------------------------------------------------------------------------
(* The runtime value of a value: the arguments, and the results of the      *)
(* instructions that read memory or control flow (loads, calls, allocas,    *)
(* phis), are inputs; every other instruction computes its value from its   *)
(* operands.                                                                *)

InputValues(insts, nargs) ==
         {Arg(n) : n \in 1..nargs}
    \cup {Ref(h) : h \in {i \in DOMAIN insts :
                            insts[i].op \in {"Load", "Call", "Alloca", "Phi"}}}

Environments(insts, nargs) == [InputValues(insts, nargs) -> {1, 2}]

RECURSIVE Eval(_, _, _, _)
Eval(insts, V, env, n) ==
    IF V.k = "c" THEN V.v
    ELSE IF V \in DOMAIN env THEN env[V]
    ELSE IF n = 0 THEN -1
    ELSE LET I == insts[V.v]
             val(j) == IF Len(I.ops) >= j THEN Eval(insts, I.ops[j], env, n - 1) ELSE 0
         IN  Compute(I, val(1), val(2), val(3))

SameValue(a, b) ==
    \A env \in Environments(F, Fn.nargs) :
        Eval(F, a, env, Len(F)) = Eval(F, b, env, Len(F))

\* the key createExpressionKey returns for an instruction whose operands are
\* numbered
KeyOf(h) == createExpressionKey(VNT, F[h]).Key

Numbered == DOMAIN VNT.ValueNumbers
Redundant == Result.RedundantInstructions

\* the analyzable instructions the analysis has processed
Processed == {h \in DOMAIN F : Ref(h) \in Numbered /\ isAnalyzable(F[h])}

\* the values whose runtime value is an input or computed from inputs
HasValue(V) == V.k \in {"c", "a"} \/ (V.k = "i" /\ F[V.v].ty # "void")

-----------------------------------------------------------------------------
(* Properties of the value numbering *)

\* C6: I4, value-numbering soundness: at every point of an analysis run, two
\* values with the same non-zero value number compute the same runtime value.
C6_ValueNumberingSound ==
    \A a, b \in Numbered :
        (lookupValueNumber(VNT, a) = lookupValueNumber(VNT, b)
            /\ lookupValueNumber(VNT, a) # 0) => (a = b \/ SameValue(a, b))

\* the analysis has returned, found a redundancy and numbered arguments,
\* constants and instructions
C6_Witness ==
    /\ pc = "ra_done" /\ Redundant # <<>>
    /\ \E a, b, c \in Numbered : a.k = "a" /\ b.k = "i" /\ c.k = "c"

\* C7: after an analysis run, two numbered values with different value
\* numbers do not compute the same value; an instruction recorded as redundant
\* and its replacement do not carry different value numbers, and two users that
\* differ only in using the one or the other have equal keys.
C7_DistinctNumbersDistinctValues ==
    pc = "ra_done" =>
        /\ \A a, b \in {V \in Numbered : HasValue(V)} :
              lookupValueNumber(VNT, a) # lookupValueNumber(VNT, b) => ~SameValue(a, b)
        /\ \A R \in DOMAIN Redundant :
              lookupValueNumber(VNT, Ref(R)) = lookupValueNumber(VNT, Ref(Redundant[R]))
        /\ \A R \in DOMAIN Redundant : \A u, w \in Processed :
              F[w] = [F[u] EXCEPT !.ops = [j \in DOMAIN F[u].ops |->
                         IF F[u].ops[j] = Ref(R) THEN Ref(Redundant[R]) ELSE F[u].ops[j]]]
                 => KeyOf(u) = KeyOf(w)

\* C8: key soundness: two analyzable instructions with equal ExpressionKeys
\* within one analysis run compute equal values.
C8_KeySound ==
    \A A, B \in Processed : KeyOf(A) = KeyOf(B) => SameValue(Ref(A), Ref(B))

\* block a dominates block b and is not b: every path from the entry to b
\* passes through a
StrictlyDominatesBlock(a, b) ==
    a # b /\ (a = 1 \/ b \notin ReachAvoiding(Fn, a, {1}, Cardinality(Blocks(Fn))))

\* C10: dominance soundness: every replacement recorded for an instruction R
\* was inserted under R's key, is not R and dominates R (its block strictly
\* dominates R's, or it precedes R in R's block); with p in block 2 and q in
\* block 3 of a diamond, neither is replaced.
C10_DominanceSound ==
    /\ \A R \in DOMAIN Redundant :
          LET P == Redundant[R]
          IN  /\ P # R
              /\ KeyOf(R) \in DOMAIN VNT.ExpressionTable
              /\ \E i \in DOMAIN VNT.ExpressionTable[KeyOf(R)] :
                    VNT.ExpressionTable[KeyOf(R)][i] = P
              /\ \/ StrictlyDominatesBlock(F[P].bb, F[R].bb)
                 \/ /\ F[P].bb = F[R].bb
                    /\ \E i, j \in DOMAIN layout : i < j /\ layout[i] = P /\ layout[j] = R
    /\ (F = DominanceBlocks.F /\ pc = "ra_done") =>
          (3 \notin DOMAIN Redundant /\ 6 \notin DOMAIN Redundant)

\* the analysis has returned on the diamond: p and q have the same key, and
\* the multiplication of block 2 was replaced by the one of the entry
C10_Witness ==
    /\ F = DominanceBlocks.F /\ pc = "ra_done"
    /\ KeyOf(3) = KeyOf(6)
    /\ 4 \in DOMAIN Redundant /\ Redundant[4] = 1

\* the instructions processBlock has handled so far, analyzable or not
Visited == {ProcessingOrder(F, layout, Fn.preorder)[i] : i \in 1..(cur - 1)}

\* the instructions the spec excludes from the expression table
NeverAnalyzed(I) ==
    \/ I.op \in {"Phi", "Ret", "Br", "Load", "Store", "Alloca", "Call", "Invoke"}
    \/ I.vol

\* the instructions held in the buckets of the expression table
InExpressionTable ==
    UNION {{VNT.ExpressionTable[k][i] : i \in DOMAIN VNT.ExpressionTable[k]} :
              k \in DOMAIN VNT.ExpressionTable}

\* C11: analyzability: the expression table holds no phi, terminator, load,
\* store, alloca, call, invoke or volatile instruction, no such instruction is
\* a key or a value of the redundancy map, and every instruction processBlock
\* has handled, analyzable or not, has a non-zero value number.
C11_OnlyAnalyzableInTable ==
    pc \in {"ra_blocks", "ra_done"} =>
        /\ \A h \in InExpressionTable : ~NeverAnalyzed(F[h])
        /\ \A R \in DOMAIN Redundant :
              ~NeverAnalyzed(F[R]) /\ ~NeverAnalyzed(F[Redundant[R]])
        /\ \A h \in Visited : lookupValueNumber(VNT, Ref(h)) # 0

\* the analysis has returned on the function with two volatile and two plain
\* loads of one address, a call, an alloca and a store: all are numbered, and
\* the table holds the two additions
C11_Witness ==
    /\ F = VolatileLoads.F /\ pc = "ra_done"
    /\ InExpressionTable = {5, 6}
    /\ \A h \in {1, 2, 3, 4, 7, 8, 9, 10} : lookupValueNumber(VNT, Ref(h)) # 0

-----------------------------------------------------------------------------
(* SpecVNT: a ValueNumberTable used through its public interface, in any    *)
(* order, on the two instructions  a op b  and  b op a.                     *)

TwoOperandOpcodes ==
    {"Add", "FAdd", "Mul", "FMul", "And", "Or", "Xor", "Sub", "SDiv", "Shl", "ICmp"}

OperandPairs == {<<Arg(1), Arg(2)>>, <<Arg(1), Const(1)>>, <<Arg(1), Arg(1)>>}

VNTFunctions ==
    {<< [Inst(op, "i8", <<ab[1], ab[2]>>) EXCEPT !.pred = IF op = "ICmp" THEN ICMP_ULT ELSE 0],
        [Inst(op, "i8", <<ab[2], ab[1]>>) EXCEPT !.pred = IF op = "ICmp" THEN ICMP_ULT ELSE 0] >> :
        op \in TwoOperandOpcodes, ab \in OperandPairs}

VNTValues == {Arg(1), Arg(2), Const(1), Ref(1), Ref(2)}

NoCall == [call |-> "none", V |-> NoConst, VN |-> 0]

\* the values of `vs` not yet in `seq`, appended in their order
RECURSIVE FirstNumbering(_, _)
FirstNumbering(seq, vs) ==
    IF vs = <<>> THEN seq
    ELSE FirstNumbering(
            IF \E i \in DOMAIN seq : seq[i] = Head(vs) THEN seq ELSE Append(seq, Head(vs)),
            Tail(vs))

InitVNT ==
    /\ F \in VNTFunctions
    /\ layout = <<1, 2>>
    /\ Fn = [succ |-> Straight, nargs |-> 2, preorder |-> <<1>>]
    /\ pc = "vnt"
    /\ cur = 1
    /\ VNT = NoVNT
    /\ Result = NoResult
    /\ Candidates = <<>> /\ Statistics = NoStats /\ ToDelete = <<>>
    /\ Changed = FALSE /\ TotalFolded = 0 /\ Pass = 0 /\ Folded = <<>> /\ PA = "pending" /\ runs = 0
    /\ pre = <<>>
    /\ keys = <<>> /\ numbered = <<>> /\ ret = NoCall /\ calls = 0
    /\ Order = <<>> /\ Stats = NoElimStats
    /\ NoLoopState

CallGetValueNumber(V) ==
    /\ pc = "vnt" /\ calls < MaxCalls
    /\ LET r == getValueNumber(VNT, V)
       IN  /\ VNT' = r.T
           /\ ret' = [call |-> "getValueNumber", V |-> V, VN |-> r.VN]
    /\ numbered' = FirstNumbering(numbered, <<V>>)
    /\ calls' = calls + 1
    /\ UNCHANGED <<F, layout, Fn, pc, cur, foldVars, elimVars, Result, keys>>
    /\ UNCHANGED loopVars

CallCreateExpressionKey(h) ==
    /\ pc = "vnt" /\ calls < MaxCalls
    /\ LET r == createExpressionKey(VNT, F[h])
       IN  /\ VNT' = r.T
           /\ keys' = (h :> r.Key) @@ keys
    /\ ret' = [call |-> "createExpressionKey", V |-> Ref(h), VN |-> 0]
    /\ numbered' = FirstNumbering(numbered, F[h].ops)
    /\ calls' = calls + 1
    /\ UNCHANGED <<F, layout, Fn, pc, cur, foldVars, elimVars, Result>>
    /\ UNCHANGED loopVars

CallAddExpression(h) ==
    /\ pc = "vnt" /\ calls < MaxCalls
    /\ h \in DOMAIN keys
    /\ VNT' = addExpression(VNT, keys[h], h)
    /\ ret' = [call |-> "addExpression", V |-> Ref(h), VN |-> 0]
    /\ calls' = calls + 1
    /\ UNCHANGED <<F, layout, Fn, pc, cur, foldVars, elimVars, Result, keys, numbered>>
    /\ UNCHANGED loopVars

CallFindAvailableValue(h) ==
    /\ pc = "vnt" /\ calls < MaxCalls
    /\ h \in DOMAIN keys
    /\ ret' = [call |-> "findAvailableValue", V |-> Ref(h),
               VN |-> findAvailableValue(VNT, keys[h], h, Fn, F, layout)]
    /\ calls' = calls + 1
    /\ UNCHANGED <<F, layout, Fn, pc, cur, foldVars, elimVars, VNT, Result, keys, numbered>>
    /\ UNCHANGED loopVars

CallClear ==
    /\ pc = "vnt" /\ calls < MaxCalls
    /\ VNT' = clear(VNT)
    /\ keys' = <<>> /\ numbered' = <<>>
    /\ ret' = [call |-> "clear", V |-> NoConst, VN |-> 0]
    /\ calls' = calls + 1
    /\ UNCHANGED <<F, layout, Fn, pc, cur, foldVars, elimVars, Result>>
    /\ UNCHANGED loopVars

NextVNT ==
    \/ \E V \in VNTValues : CallGetValueNumber(V)
    \/ \E h \in DOMAIN F : CallCreateExpressionKey(h)
    \/ \E h \in DOMAIN F : CallAddExpression(h)
    \/ \E h \in DOMAIN F : CallFindAvailableValue(h)
    \/ CallClear

SpecVNT == InitVNT /\ [][NextVNT]_vars

-----------------------------------------------------------------------------
(* Properties of the table interface *)

FirstIndex(seq, V) ==
    IF \E i \in DOMAIN seq : seq[i] = V THEN CHOOSE i \in DOMAIN seq : seq[i] = V ELSE 0

\* C5: the number of a value is its rank, counted from 1, among the values
\* numbered since the last clear, in the order of their first numbering (so a
\* first call takes the next unused number, a later call takes none and no
\* number is 0); getValueNumber returns it; lookupValueNumber is 0 exactly for
\* the values not numbered since the last clear.
C5_DenseIdempotent ==
    /\ \A V \in VNTValues : lookupValueNumber(VNT, V) = FirstIndex(numbered, V)
    /\ VNT.NextValueNumber = Len(numbered) + 1
    /\ ret.call = "getValueNumber" =>
          (ret.VN >= 1 /\ ret.VN = FirstIndex(numbered, ret.V))

\* getValueNumber has been called for a value numbered earlier, after other
\* values were numbered
C5_Witness ==
    ret.call = "getValueNumber" /\ ret.VN >= 1 /\ ret.VN < Len(numbered)

CommutativeOpcodes == {"Add", "FAdd", "Mul", "FMul", "And", "Or", "Xor"}

\* C9: for a commutative opcode the keys of a op b and b op a are equal,
\* whatever the order in which a and b were numbered; for any other
\* two-operand opcode the operand numbers stay in operand order, so the keys
\* differ when a and b have different numbers.
C9_CommutativeCanonical ==
    (1 \in DOMAIN keys /\ 2 \in DOMAIN keys) =>
        LET a == lookupValueNumber(VNT, F[1].ops[1])
            b == lookupValueNumber(VNT, F[1].ops[2])
        IN  IF F[1].op \in CommutativeOpcodes
            THEN keys[1] = keys[2]
            ELSE /\ keys[1].OperandValueNumbers = <<a, b>>
                 /\ keys[2].OperandValueNumbers = <<b, a>>
                 /\ a # b => keys[1] # keys[2]

\* both keys of a commutative opcode were made with b numbered before a
C9_Witness ==
    /\ 1 \in DOMAIN keys /\ 2 \in DOMAIN keys
    /\ F[1].op \in CommutativeOpcodes
    /\ lookupValueNumber(VNT, F[1].ops[1]) > lookupValueNumber(VNT, F[1].ops[2])

-----------------------------------------------------------------------------
(* RedundancyEliminationPass.  eliminateRedundancies(F, RI) walks the       *)
(* DenseMap RI.RedundantInstructions, whose iteration order follows the     *)
(* addresses of its keys, so a run starts by fixing one of the possible     *)
(* orders.                                                                  *)

hasRedundancies(RI) == RI.RedundantInstructions # <<>>

eliminatePairIgnoringTypes(st, Red, Replacement) ==
    [F |-> replaceAllUsesWith(st.F, Ref(Red), Ref(Replacement)),
     ToDelete |-> Append(st.ToDelete, Red),
     InstructionsEliminated |-> st.InstructionsEliminated + 1]

eliminatePairByConstant(st, Red, Replacement) ==
    IF st.F[Red].ty # st.F[Replacement].ty THEN st
    ELSE [F |-> replaceAllUsesWith(st.F, Ref(Red), Const(0)),
          ToDelete |-> Append(st.ToDelete, Red),
          InstructionsEliminated |-> st.InstructionsEliminated + 1]

\* the body of the loop over the map for the pair (Redundant, Replacement),
\* on the record [F, ToDelete, InstructionsEliminated]; 0 is the null pointer
eliminatePair(st, Red, Replacement) ==
    IF Red = 0 \/ Replacement = 0 THEN st
    ELSE IF st.F[Red].ty # st.F[Replacement].ty THEN st
    ELSE [F |-> replaceAllUsesWith(st.F, Ref(Red), Ref(Replacement)),
          ToDelete |-> Append(st.ToDelete, Red),
          InstructionsEliminated |-> st.InstructionsEliminated + 1]

\* the loop over the map, in the iteration order `order`
RECURSIVE eliminatePairs(_, _, _)
eliminatePairs(st, RI, order) ==
    IF order = <<>> THEN st
    ELSE eliminatePairs(
            eliminatePair(st, Head(order), RI.RedundantInstructions[Head(order)]),
            RI, Tail(order))

\* the function eliminateRedundancies leaves and the value it returns
eliminateRedundancies(insts, lay, RI, order) ==
    IF ~hasRedundancies(RI)
    THEN [F |-> insts, layout |-> lay, changed |-> FALSE]
    ELSE LET st == eliminatePairs(
                      [F |-> insts, ToDelete |-> <<>>, InstructionsEliminated |-> 0],
                      RI, order)
         IN  [F |-> st.F, layout |-> eraseAll(lay, st.ToDelete),
              changed |-> st.ToDelete # <<>>]

-----------------------------------------------------------------------------
(* The inputs of RedundancyEliminationPass::run: a function, whose          *)
(* RedundancyInfo the analysis computes, or a function together with a      *)
(* RedundancyInfo built by the caller of eliminate(function,                *)
(* redundancy_info), in which a replacement precedes the instruction it     *)
(* replaces.                                                                *)

\* casts to two types and three equal additions
TypedDuplicates ==
    Sample(<< Inst("ZExt", "i16", <<Arg(1)>>),
              Inst("ZExt", "i32", <<Arg(1)>>),
              Inst("Add", "i8", <<Arg(1), Arg(2)>>),
              Inst("Add", "i8", <<Arg(1), Arg(2)>>),
              Inst("Add", "i8", <<Arg(1), Arg(2)>>),
              Inst("Mul", "i8", <<Ref(4), Ref(5)>>),
              Inst("Call", "void", <<Ref(1), Ref(2), Ref(6)>>),
              Inst("Ret", "void", <<Ref(3)>>) >>, Straight, 2)

\* the maps of at most MaxPairs pairs (R, P) of value-producing instructions
\* of a straight-line function with P before R
BuiltMaps(s) ==
    LET vals == {h \in DOMAIN s.F : s.F[h].ty # "void"}
    IN  UNION {{m \in [D -> vals] : \A R \in D : m[R] < R} :
                  D \in {D \in SUBSET vals : D # {} /\ Cardinality(D) <= MaxPairs}}

BuiltInputs ==
    {[F |-> TypedDuplicates.F, layout |-> TypedDuplicates.layout,
      Fn |-> [succ |-> TypedDuplicates.succ, nargs |-> TypedDuplicates.nargs,
              preorder |-> <<1>>],
      RI |-> [NoResult EXCEPT !.RedundantInstructions = m]] :
        m \in BuiltMaps(TypedDuplicates)}

-----------------------------------------------------------------------------
(* SpecElim: RedundancyEliminationPass::run: the analysis, then one pair of *)
(* the map and one erasure per step.                                        *)

InitBuilt ==
    /\ \E s \in BuiltInputs :
          F = s.F /\ layout = s.layout /\ Fn = s.Fn /\ Result = s.RI
    /\ pc = "ri_built"
    /\ cur = 1
    /\ VNT = NoVNT
    /\ Candidates = <<>> /\ Statistics = NoStats /\ ToDelete = <<>>
    /\ Changed = FALSE /\ TotalFolded = 0 /\ Pass = 0 /\ Folded = <<>> /\ PA = "pending" /\ runs = 0
    /\ pre = <<>>
    /\ keys = <<>> /\ numbered = <<>> /\ ret = <<>> /\ calls = 0
    /\ Order = <<>> /\ Stats = NoElimStats
    /\ NoLoopState

InitElim == InitRA \/ InitBuilt

\* run: count the function, take the RedundancyInfo of the analysis, enter
\* eliminateRedundancies
RunElimination ==
    /\ pc \in {"ra_done", "ri_built"}
    /\ Stats' = [Stats EXCEPT !.FunctionsProcessed = @ + 1]
    /\ Order' \in Orderings(DOMAIN Result.RedundantInstructions)
    /\ pre' = [F |-> F, layout |-> layout, analysed |-> (pc = "ra_done")]
    /\ pc' = "elim" /\ cur' = 1 /\ ToDelete' = <<>>
    /\ UNCHANGED <<F, layout, Fn, Candidates, Statistics, Changed, TotalFolded, Pass, Folded, PA,
                   runs, vnVars>>
    /\ UNCHANGED loopVars

\* the map is empty: eliminateRedundancies returns false, run preserves all
NoRedundancies ==
    /\ pc = "elim" /\ ~hasRedundancies(Result)
    /\ Changed' = FALSE /\ PA' = "all"
    /\ pc' = "elim_done"
    /\ UNCHANGED <<F, layout, Fn, cur, Candidates, Statistics, ToDelete, TotalFolded, Pass, Folded,
                   runs, pre, vnVars, elimVars>>
    /\ UNCHANGED loopVars

\* the next pair of the map
EliminatePair ==
    /\ pc = "elim" /\ hasRedundancies(Result) /\ cur <= Len(Order)
    /\ LET st == eliminatePair(
                    [F |-> F, ToDelete |-> ToDelete,
                     InstructionsEliminated |-> Stats.InstructionsEliminated],
                    Order[cur], Result.RedundantInstructions[Order[cur]])
       IN  /\ F' = st.F
           /\ ToDelete' = st.ToDelete
           /\ Stats' = [Stats EXCEPT !.InstructionsEliminated = st.InstructionsEliminated]
    /\ cur' = cur + 1
    /\ UNCHANGED <<layout, Fn, pc, Candidates, Statistics, Changed, TotalFolded, Pass, Folded, PA,
                   runs, pre, vnVars, Order>>
    /\ UNCHANGED loopVars

\* the end of the map: start on the deletion list
EndOfPairs ==
    /\ pc = "elim" /\ hasRedundancies(Result) /\ cur > Len(Order)
    /\ pc' = "erase" /\ cur' = 1
    /\ UNCHANGED <<F, layout, Fn, foldVars, vnVars, elimVars>>
    /\ UNCHANGED loopVars

\* eraseFromParent of the next instruction of the deletion list
EraseNext ==
    /\ pc = "erase" /\ cur <= Len(ToDelete)
    /\ layout' = eraseAll(layout, <<ToDelete[cur]>>)
    /\ cur' = cur + 1
    /\ UNCHANGED <<F, Fn, pc, foldVars, vnVars, elimVars>>
    /\ UNCHANGED loopVars

\* eliminateRedundancies returns !ToDelete.empty(); run returns the preserved set
EliminationReturns ==
    /\ pc = "erase" /\ cur > Len(ToDelete)
    /\ Changed' = (ToDelete # <<>>)
    /\ PA' = IF ToDelete # <<>> THEN "cfg" ELSE "all"
    /\ pc' = "elim_done"
    /\ UNCHANGED <<F, layout, Fn, cur, Candidates, Statistics, ToDelete, TotalFolded, Pass, Folded,
                   runs, pre, vnVars, elimVars>>
    /\ UNCHANGED loopVars

NextElim ==
    \/ NextRA
    \/ RunElimination \/ NoRedundancies \/ EliminatePair
    \/ EndOfPairs \/ EraseNext \/ EliminationReturns

SpecElim == InitElim /\ [][NextElim]_vars

-----------------------------------------------------------------------------
(* Properties of the redundancy elimination *)

\* the pairs of the map the loop has handled so far
PairsDone ==
    {Order[i] : i \in 1..(IF pc = "elim" THEN cur - 1 ELSE Len(Order))}

\* the result types of R and of its replacement differ
TypeMismatch(R) == pre.F[R].ty # pre.F[Redundant[R]].ty

\* C12: type-mismatch guard: a pair (R, P) whose result types differ leaves
\* every use of R in place, R linked and off the deletion list and the counter
\* of eliminated instructions untouched; the loop goes on with the other
\* pairs, which are all replaced and counted; the pass returns, and reports no
\* change when every pair was skipped.
C12_TypeMismatchSkipped ==
    pc \in {"elim", "erase", "elim_done"} =>
        /\ \A R \in DOMAIN Redundant : TypeMismatch(R) =>
              /\ R \in Linked
              /\ \A i \in DOMAIN ToDelete : ToDelete[i] # R
              /\ \A h \in DOMAIN F : \A j \in DOMAIN F[h].ops :
                    pre.F[h].ops[j] = Ref(R) => F[h].ops[j] = Ref(R)
        /\ {ToDelete[i] : i \in DOMAIN ToDelete} = {R \in PairsDone : ~TypeMismatch(R)}
        /\ Stats.InstructionsEliminated = Cardinality({R \in PairsDone : ~TypeMismatch(R)})
        /\ pc = "elim_done" =>
              /\ Changed = (\E R \in DOMAIN Redundant : ~TypeMismatch(R))
              /\ (\A R \in DOMAIN Redundant : TypeMismatch(R)) => PA = "all"
              /\ \A R \in DOMAIN Redundant : ~TypeMismatch(R) => R \notin Linked

\* the pass has returned on a map whose first pair was skipped for its types
\* and whose second pair was replaced
C12_Witness ==
    /\ pc = "elim_done" /\ Len(Order) = 2
    /\ TypeMismatch(Order[1]) /\ ~TypeMismatch(Order[2])
    /\ \E h \in Linked : \E j \in DOMAIN F[h].ops : F[h].ops[j] = Ref(Order[1])
    /\ Order[2] \notin Linked /\ Changed

Predecessors(b) == {a \in Blocks(Fn) : b \in Fn.succ[a]}

\* the block operand j of a phi of block b comes from: the predecessors of b
\* in increasing order
IncomingBlock(b, j) ==
    CHOOSE a \in Predecessors(b) : Cardinality({c \in Predecessors(b) : c < a}) = j - 1

\* the definition Def dominates the use that is operand j of User, in the
\* function as it was when the elimination started
DominatesUse(Def, User, j) ==
    IF pre.F[User].op = "Phi"
    THEN BlockDominates(Fn, pre.F[Def].bb, IncomingBlock(pre.F[User].bb, j))
    ELSE dominates(Fn, pre.F, pre.layout, Def, User)

\* C13: I3, dominance of uses: for every instruction R the elimination
\* replaces by the P the analysis recorded, every use of R is redirected to P
\* and P's definition dominates it; when the elimination has returned, every
\* operand of a linked instruction is a linked instruction that dominates the
\* use.
C13_ReplacementDominatesUses ==
    (pc \in {"elim", "erase", "elim_done"} /\ pre.analysed) =>
        /\ \A i \in DOMAIN ToDelete :
              LET R == ToDelete[i]
                  P == Redundant[R]
              IN  \A h \in DOMAIN F : \A j \in DOMAIN F[h].ops :
                      pre.F[h].ops[j] = Ref(R) =>
                          (F[h].ops[j] = Ref(P) /\ DominatesUse(P, h, j))
        /\ pc = "elim_done" =>
              \A h \in Linked : \A j \in DOMAIN F[h].ops :
                  F[h].ops[j].k = "i" =>
                      (F[h].ops[j].v \in Linked /\ DominatesUse(F[h].ops[j].v, h, j))

\* the elimination has returned on the function whose additions of blocks 2
\* and 3 are replaced by the one of the entry: the multiplication of block 2
\* and both operands of the phi of block 4 now use the addition of the entry
C13_Witness ==
    /\ pc = "elim_done" /\ pre.analysed /\ pre.F = CrossBlockUse.F
    /\ 3 \notin Linked /\ 6 \notin Linked
    /\ F[4].ops[1] = Ref(1) /\ F[8].ops = <<Ref(1), Ref(1)>>

\* the linked instructions that have h as an operand
Users(h) == {u \in Linked : \E j \in DOMAIN F[u].ops : F[u].ops[j] = Ref(h)}

\* C14: I2, no dangling uses: in the constant folder and in the redundancy
\* eliminator an instruction has no users left at the moment it is erased,
\* and when the pass has returned no linked instruction has an erased
\* instruction as an operand, for every iteration order of the map and for
\* maps in which a replacement is itself a key.
C14_NoDanglingUses ==
    /\ pc = "sweep" => \A i \in DOMAIN ToDelete : Users(ToDelete[i]) = {}
    /\ (pc = "erase" /\ cur <= Len(ToDelete)) => Users(ToDelete[cur]) = {}
    /\ pc \in {"done", "elim_done"} =>
          \A u \in Linked : \A j \in DOMAIN F[u].ops :
              F[u].ops[j].k = "i" => F[u].ops[j].v \in Linked

\* no replacement of the map is itself a key of the map
NoChain == \A R \in DOMAIN Redundant : Redundant[R] \notin DOMAIN Redundant

C14_HoldsWithoutChains == NoChain => C14_NoDanglingUses

\* the function as a reader of the IR sees it: the linked instructions, in
\* layout order, with their operands
IR(insts, lay) ==
    [layout |-> lay, insts |-> [h \in {lay[i] : i \in DOMAIN lay} |-> insts[h]]]

\* C16: deterministic output: the function eliminateRedundancies leaves
\* (which uses name which replacement, which instructions are erased) is the
\* same for every order in which the pairs of the map can be iterated.
C16_OrderIndependent ==
    pc = "elim_done" =>
        \A o \in Orderings(DOMAIN Redundant) :
            LET r == eliminateRedundancies(pre.F, pre.layout, Result, o)
            IN  IR(r.F, r.layout) = IR(F, layout)

C16_HoldsWithoutChains == NoChain => C16_OrderIndependent

-----------------------------------------------------------------------------
(* SpecPipe: the pipeline of the plugin on one function: the constant       *)
(* folder, the redundancy elimination with its analysis, and the constant   *)
(* folder once more.                                                        *)

\* a = 2 + 3; u = x + a; v = x + 5; m = u * v; w = v + 3; return m
FoldThenEliminate ==
    << Inst("Add", "i8", <<Const(2), Const(3)>>),
       Inst("Add", "i8", <<Arg(1), Ref(1)>>),
       Inst("Add", "i8", <<Arg(1), Const(5)>>),
       Inst("Mul", "i8", <<Ref(2), Ref(3)>>),
       Inst("Add", "i8", <<Ref(3), Const(3)>>),
       Inst("Ret", "void", <<Ref(4)>>) >>

PipeFunctions == FoldFunctions \cup {FoldThenEliminate}

InitPipe ==
    /\ F \in PipeFunctions
    /\ layout = [i \in 1..Len(F) |-> i]
    /\ Fn = NoFn
    /\ pc = "visit"
    /\ cur = 1
    /\ Candidates = <<>>
    /\ Statistics = NoStats
    /\ ToDelete = <<>>
    /\ Changed = FALSE
    /\ TotalFolded = 0 /\ Pass = 0 /\ Folded = <<>>
    /\ PA = "pending"
    /\ runs = 1
    /\ pre = [F |-> F, layout |-> layout]
    /\ VNT = NoVNT /\ Result = NoResult
    /\ keys = <<>> /\ numbered = <<>> /\ ret = <<>> /\ calls = 0
    /\ Order = <<>> /\ Stats = NoElimStats
    /\ NoLoopState

\* the elimination pass asks the analysis manager for the RedundancyInfo of
\* the function the folder returned
GetAnalysisResult ==
    /\ pc = "done" /\ runs = 1
    /\ pc' = "ra_args" /\ cur' = 1
    /\ VNT' = NoVNT /\ Result' = NoResult
    /\ UNCHANGED <<F, layout, Fn, foldVars, keys, numbered, ret, calls, elimVars>>
    /\ UNCHANGED loopVars

\* the folder is run on the function the elimination returned
FoldAfterElimination ==
    /\ pc = "elim_done" /\ runs = 1
    /\ runs' = 2
    /\ pre' = [F |-> F, layout |-> layout]
    /\ pc' = "visit" /\ cur' = 1
    /\ Candidates' = <<>> /\ Statistics' = NoStats
    /\ ToDelete' = <<>> /\ Changed' = FALSE /\ TotalFolded' = 0 /\ Pass' = 0 /\ Folded' = <<>>
    /\ PA' = "pending"
    /\ UNCHANGED <<F, layout, Fn, vnVars, elimVars>>
    /\ UNCHANGED loopVars

NextPipe ==
    \/ Visit \/ VisitEnd \/ FoldOne \/ EndOfSweep
    \/ GetAnalysisResult
    \/ NextElim
    \/ FoldAfterElimination

SpecPipe == InitPipe /\ [][NextPipe]_vars

\* C15: fold, eliminate, fold yields the same function as fold, eliminate:
\* the elimination makes no operand a constant that was not one, and the
\* second run of the folder changes no instruction, erases nothing, folds
\* nothing and preserves all analyses.
C15_SecondFoldIsNoOp ==
    /\ pc \in {"elim", "erase", "elim_done"} =>
          \A h \in DOMAIN F : \A j \in DOMAIN F[h].ops :
              IsConstant(F[h].ops[j]) <=> IsConstant(pre.F[h].ops[j])
    /\ (runs = 2 /\ pc \in {"visit", "sweep", "done"}) =>
          /\ F = pre.F /\ layout = pre.layout
          /\ ToDelete = <<>> /\ TotalFolded = 0 /\ Candidates = <<>>
          /\ pc = "done" => PA = "all"

\* the second run of the folder has returned on the function in which the
\* first run folded a and the elimination replaced v by u
C15_Witness ==
    /\ runs = 2 /\ pc = "done" /\ PA = "all"
    /\ layout = <<2, 4, 5, 6>>
    /\ F[2].ops = <<Arg(1), Const(5)>> /\ F[4].ops = <<Ref(2), Ref(2)>>
    /\ F[5].ops = <<Ref(2), Const(3)>>
    /\ Stats.InstructionsEliminated = 1

-----------------------------------------------------------------------------
(* LoopAnalyzer.  A loop is what the host analyses report of it:            *)
(*   TripCount, TripMultiple : ScalarEvolution (0 = unknown trip count),    *)
(*   Body      : the instructions of its blocks, as kind -> how many,       *)
(*   Preheader, Latch : whether getLoopPreheader / getLoopLatch are non-null,*)
(*   Parent    : the loop it is nested in (0 for a top-level loop),         *)
(*   InLoopInfo: whether LoopInfo still has a loop for its header.          *)
(* `unsigned` is UnsignedBits wide.                                         *)

UModulus == 2 ^ UnsignedBits
UMul(a, b) == (a * b) % UModulus
UAdd(a, b) == (a + b) % UModulus

InstructionKinds ==
    {"plain", "phi", "br", "call_pure", "call_indirect", "call_mem", "volatile", "atomic"}

isCallInst(k)          == k \in {"call_pure", "call_indirect", "call_mem"}
\* CallInst::getCalledFunction is null for an indirect call
getCalledFunction(k)   == k # "call_indirect"
doesNotAccessMemory(k) == k = "call_pure"

RECURSIVE SumOver(_, _)
SumOver(f, S) ==
    IF S = {} THEN 0
    ELSE LET x == CHOOSE y \in S : TRUE IN f[x] + SumOver(f, S \ {x})

computeTripCount(L) == L.TripCount

countInstructions(L) ==
    SumOver(L.Body, {k \in InstructionKinds : k # "phi" /\ k # "br"}) % UModulus

isSimpleLoop(L) == L.Preheader /\ L.Latch

hasSideEffects(L) ==
    \E k \in InstructionKinds :
        /\ L.Body[k] > 0
        /\ \/ isCallInst(k) /\ (~getCalledFunction(k) \/ ~doesNotAccessMemory(k))
           \/ k = "volatile"
           \/ k = "atomic"

determineStrategy(Candidate, Cfg) ==
    IF Candidate.HasSideEffects /\ ~Cfg.UnrollLoopsWithCalls THEN "NoUnroll"
    ELSE IF /\ Candidate.TripCount > 0
            /\ Candidate.TripCount <= Cfg.FullUnrollMaxCount
            /\ UMul(Candidate.InstructionCount, Candidate.TripCount)
                  <= Cfg.FullUnrollMaxInstructions
         THEN "FullUnroll"
    ELSE IF Candidate.TripCount > 0 THEN "PartialUnroll"
    ELSE IF Cfg.AllowRuntimeUnroll /\ Candidate.IsSimple THEN "RuntimeUnroll"
    ELSE "NoUnroll"

\* while (Factor > 1 && TripCount % Factor != 0) Factor--;
RECURSIVE adjustToTripCount(_, _)
adjustToTripCount(Factor, TripCount) ==
    IF Factor > 1 /\ TripCount % Factor # 0
    THEN adjustToTripCount(Factor - 1, TripCount)
    ELSE Factor

\* while (Factor > 1 && InstructionCount * Factor > MaxUnrolledSize) Factor--;
RECURSIVE adjustToSize(_, _, _)
adjustToSize(Factor, InstructionCount, MaxUnrolledSize) ==
    IF Factor > 1 /\ UMul(InstructionCount, Factor) > MaxUnrolledSize
    THEN adjustToSize(Factor - 1, InstructionCount, MaxUnrolledSize)
    ELSE Factor

calculateUnrollFactor(Candidate, Cfg) ==
    CASE Candidate.Strategy = "FullUnroll" -> Candidate.TripCount
      [] Candidate.Strategy = "PartialUnroll" ->
            adjustToSize(adjustToTripCount(Cfg.PartialUnrollFactor, Candidate.TripCount),
                         Candidate.InstructionCount, Cfg.MaxUnrolledSize)
      [] Candidate.Strategy = "RuntimeUnroll" -> Cfg.PartialUnrollFactor
      [] OTHER -> 1

\* analyzeLoop for the loop with index l
analyzeLoop(l, L, Cfg) ==
    LET gathered == [L |-> l,
                     TripCount |-> computeTripCount(L),
                     TripMultiple |-> L.TripMultiple,
                     InstructionCount |-> countInstructions(L),
                     IsSimple |-> isSimpleLoop(L),
                     HasSideEffects |-> hasSideEffects(L),
                     Strategy |-> "NoUnroll",
                     UnrollFactor |-> 1]
        decided == [gathered EXCEPT !.Strategy = determineStrategy(gathered, Cfg)]
    IN  [decided EXCEPT !.UnrollFactor = calculateUnrollFactor(decided, Cfg)]

\* the order in which getCandidates analyzes the loops: for each top-level
\* loop, depth_first over the loop and its subloops
SubLoops(loops, l) == {m \in DOMAIN loops : loops[m].Parent = l}

RECURSIVE depthFirstOfAll(_, _, _)
RECURSIVE depthFirst(_, _, _)
depthFirst(loops, l, n) ==
    IF n = 0 THEN <<l>> ELSE <<l>> \o depthFirstOfAll(loops, SubLoops(loops, l), n - 1)
depthFirstOfAll(loops, S, n) ==
    IF S = {} THEN <<>>
    ELSE LET l == CHOOSE m \in S : \A k \in S : m <= k
         IN  depthFirst(loops, l, n) \o depthFirstOfAll(loops, S \ {l}, n)

Worklist(loops) == depthFirstOfAll(loops, SubLoops(loops, 0), Len(loops))

\* what the host's UnrollLoop can return for a request
UnrollLoop(Candidate) ==
    {"Unmodified"} \cup
    (IF Candidate.TripCount > 0 /\ Candidate.UnrollFactor = Candidate.TripCount
     THEN {"FullyUnrolled"} ELSE {"PartiallyUnrolled"})

-----------------------------------------------------------------------------
(* The loops and configurations the unroller is run on *)

\* trip counts around FullUnrollMaxCount, and half the range of `unsigned`
TripCounts == {0, 1, 8, 9, 11, 16, UModulus \div 2}
\* body sizes around the limits of the default configuration
PlainCounts == {1, 2, 12, 13, 101, 150}
SpecialKinds == {"none", "call_pure", "call_indirect", "call_mem", "volatile", "atomic"}

LoopOf(tc, plain, special, preheader, latch, parent) ==
    [TripCount |-> tc, TripMultiple |-> IF tc > 0 THEN tc ELSE 1,
     Body |-> [k \in InstructionKinds |->
                 CASE k = "plain" -> plain
                   [] k = "phi" -> 1
                   [] k = "br" -> 1
                   [] OTHER -> IF k = special THEN 1 ELSE 0],
     Preheader |-> preheader, Latch |-> latch, Parent |-> parent, InLoopInfo |-> TRUE]

SingleLoops ==
    {<<LoopOf(tc, plain, special, preheader, latch, 0)>> :
        tc \in TripCounts, plain \in PlainCounts, special \in SpecialKinds,
        preheader \in BOOLEAN, latch \in BOOLEAN}

\* for (i = 0; i < 8; i++) sum += array[i];   (loop_unroll_small)
SmallLoop == LoopOf(8, 6, "none", TRUE, TRUE, 0)
\* for (i = 0; i < 64; i++) sum += array[i % size];   (loop_unroll_large)
LargeLoop == LoopOf(64, 7, "none", TRUE, TRUE, 0)

LoopNests ==
    { <<>>,
      <<SmallLoop>>,
      <<LargeLoop>>,
      \* a loop of unknown trip count around a loop of four iterations
      << LoopOf(0, 20, "none", TRUE, TRUE, 0), LoopOf(4, 3, "none", TRUE, TRUE, 1) >>,
      \* a loop of two iterations around a loop of four iterations
      << LoopOf(2, 10, "none", TRUE, TRUE, 0), LoopOf(4, 3, "none", TRUE, TRUE, 1) >>,
      \* three loops, each inside the one before
      << LoopOf(0, 30, "none", TRUE, TRUE, 0), LoopOf(16, 12, "none", TRUE, TRUE, 1),
         LoopOf(4, 3, "none", TRUE, TRUE, 2) >>,
      \* two loops one after the other, the second with a prime trip count
      << LoopOf(16, 5, "none", TRUE, TRUE, 0), LoopOf(11, 5, "none", TRUE, TRUE, 0) >> }

LoopFunctions == SingleLoops \cup LoopNests

Configs ==
    { DefaultConfig,
      [DefaultConfig EXCEPT !.AllowRuntimeUnroll = FALSE],
      [DefaultConfig EXCEPT !.UnrollLoopsWithCalls = TRUE],
      [DefaultConfig EXCEPT !.FullUnrollMaxCount = 16, !.PartialUnrollFactor = 8],
      \* no limit on the trip count, the size limit alone decides
      [DefaultConfig EXCEPT !.FullUnrollMaxCount = UModulus - 1] }

-----------------------------------------------------------------------------
(* SpecLoop: LoopUnrollingPass::run, one loop of getCandidates and one      *)
(* candidate of the unrolling loop per step.                                *)

InitLoop ==
    /\ Loops \in LoopFunctions
    /\ Config \in Configs
    /\ Analyzed = <<>> /\ UnrollCandidates = <<>>
    /\ LoopStats = NoLoopStats /\ Invoked = <<>>
    /\ Remarks = <<>> /\ StaleReads = <<>>
    /\ pc = "lu_run"
    /\ cur = 1
    /\ F = <<>> /\ layout = <<>> /\ Fn = NoFn
    /\ Candidates = <<>> /\ Statistics = NoStats /\ ToDelete = <<>>
    /\ Changed = FALSE /\ TotalFolded = 0 /\ Pass = 0 /\ Folded = <<>> /\ PA = "pending" /\ runs = 0
    /\ pre = <<>>
    /\ VNT = NoVNT /\ Result = NoResult
    /\ keys = <<>> /\ numbered = <<>> /\ ret = <<>> /\ calls = 0
    /\ Order = <<>> /\ Stats = NoElimStats

\* LI.empty(): nothing to do
NoLoops ==
    /\ pc = "lu_run" /\ Loops = <<>>
    /\ PA' = "all" /\ pc' = "lu_done"
    /\ UNCHANGED <<F, layout, Fn, cur, Candidates, Statistics, ToDelete, Changed,
                   TotalFolded, Pass, Folded, runs, pre, vnVars, elimVars, loopVars>>

\* getCandidates: analyzeLoop on the next loop of the worklist
AnalyzeNext ==
    /\ pc = "lu_run" /\ Loops # <<>> /\ cur <= Len(Worklist(Loops))
    /\ LET l == Worklist(Loops)[cur]
           Candidate == analyzeLoop(l, Loops[l], Config)
       IN  /\ Analyzed' = Append(Analyzed, Candidate)
           /\ UnrollCandidates' =
                 IF Candidate.Strategy # "NoUnroll"
                 THEN Append(UnrollCandidates, Candidate)
                 ELSE UnrollCandidates
    /\ cur' = cur + 1
    /\ UNCHANGED <<F, layout, Fn, pc, foldVars, vnVars, elimVars,
                   Loops, Config, LoopStats, Invoked, Remarks, StaleReads>>

\* getCandidates has returned: count the loops, return early without candidates
CandidatesCollected ==
    /\ pc = "lu_run" /\ Loops # <<>> /\ cur > Len(Worklist(Loops))
    /\ LoopStats' = [LoopStats EXCEPT !.LoopsAnalyzed = UAdd(@, Len(Loops))]
    /\ IF UnrollCandidates = <<>>
       THEN /\ PA' = "all" /\ pc' = "lu_done"
            /\ UNCHANGED <<cur, Changed>>
       ELSE /\ pc' = "lu_unroll" /\ cur' = 1 /\ Changed' = FALSE
            /\ UNCHANGED PA
    /\ UNCHANGED <<F, layout, Fn, Candidates, Statistics, ToDelete, TotalFolded, Pass, Folded,
                   runs, pre, vnVars, elimVars,
                   Loops, Config, Analyzed, UnrollCandidates, Invoked,
                   Remarks, StaleReads>>

\* the loops nested in loop l, at any depth
RECURSIVE Encloses(_, _, _, _)
Encloses(loops, l, m, n) ==
    /\ m # 0 /\ n > 0
    /\ \/ loops[m].Parent = l
       \/ Encloses(loops, l, loops[m].Parent, n - 1)

NestedIn(loops, l) == {m \in DOMAIN loops : Encloses(loops, l, m, Len(loops))}

\* LI.getLoopFor(L->getHeader()): the innermost loop of LoopInfo that contains
\* the header block of l (0 for nullptr).  The blocks of an erased loop stay in
\* the loops around it.
RECURSIVE getLoopFor(_, _, _)
getLoopFor(loops, l, n) ==
    IF l = 0 THEN 0
    ELSE IF loops[l].InLoopInfo THEN l
    ELSE IF n = 0 THEN 0
    ELSE getLoopFor(loops, loops[l].Parent, n - 1)

\* what reading a field of a Loop that LoopInfo has erased can give: the value
\* still in memory, or a fault (assertion of a checked build, poisoned memory)
ReadOutcomes == {"stale", "fault"}

\* LoopInfo after UnrollLoop on l returned Res: a complete unrolling erases l;
\* Gone are the loops nested in l that the unrolling dissolved with it
eraseLoops(loops, l, Res, Gone) ==
    [m \in DOMAIN loops |->
        IF (m = l /\ Res = "FullyUnrolled") \/ m \in Gone
        THEN [loops[m] EXCEPT !.InLoopInfo = FALSE]
        ELSE loops[m]]

countResult(stats, Candidate, Success) ==
    IF Success
    THEN CASE Candidate.Strategy = "FullUnroll" ->
                [stats EXCEPT !.LoopsFullyUnrolled = UAdd(@, 1)]
           [] Candidate.Strategy = "PartialUnroll" ->
                [stats EXCEPT !.LoopsPartiallyUnrolled = UAdd(@, 1)]
           [] Candidate.Strategy = "RuntimeUnroll" ->
                [stats EXCEPT !.LoopsRuntimeUnrolled = UAdd(@, 1)]
           [] OTHER -> stats
    ELSE [stats EXCEPT !.LoopsSkipped = UAdd(@, 1)]

\* emitRemark: the remark built for loop l
emitRemark(l, Success) ==
    [L |-> l, Kind |-> IF Success THEN "Unrolled" ELSE "NotUnrolled"]

\* the next candidate: the validity guard, unrollLoop, the statistics, the
\* remark.  Res is what UnrollLoop returns, Gone the nested loops it
\* dissolved, Read the outcome of reading a field of an erased loop.
UnrollNext(Res, Gone, Read) ==
    /\ pc = "lu_unroll" /\ cur <= Len(UnrollCandidates)
    /\ LET Candidate == UnrollCandidates[cur]
           l == Candidate.L
           ErasedBefore == ~Loops[l].InLoopInfo
           AtGuard == IF ErasedBefore
                      THEN Append(StaleReads, [L |-> l, At |-> "guard"])
                      ELSE StaleReads
       IN  IF ErasedBefore /\ Read = "fault"
           THEN \* L->getHeader() of the guard faults
                /\ Res = "Unmodified" /\ Gone = {}
                /\ StaleReads' = AtGuard
                /\ pc' = "lu_fault"
                /\ UNCHANGED <<cur, Changed, Loops, LoopStats, Invoked, Remarks>>
           ELSE IF getLoopFor(Loops, l, Len(Loops)) = 0
           THEN \* continue
                /\ Res = "Unmodified" /\ Gone = {}
                /\ StaleReads' = AtGuard
                /\ cur' = cur + 1
                /\ UNCHANGED <<pc, Changed, Loops, LoopStats, Invoked, Remarks>>
           ELSE /\ Res \in UnrollLoop(Candidate)
                /\ Gone \subseteq {m \in NestedIn(Loops, l) : Loops[m].InLoopInfo}
                /\ Res = "Unmodified" => Gone = {}
                /\ Invoked' = Append(Invoked,
                                     [L |-> l, Count |-> Candidate.UnrollFactor,
                                      Found |-> getLoopFor(Loops, l, Len(Loops)),
                                      Result |-> Res])
                /\ Loops' = eraseLoops(Loops, l, Res, Gone)
                /\ Changed' = (Changed \/ Res # "Unmodified")
                /\ LoopStats' = countResult(LoopStats, Candidate, Res # "Unmodified")
                /\ LET ErasedNow == ErasedBefore \/ Res = "FullyUnrolled"
                   IN  \* emitRemark reads L->getStartLoc() and L->getHeader()
                       /\ StaleReads' = IF ErasedNow
                                        THEN Append(AtGuard, [L |-> l, At |-> "remark"])
                                        ELSE AtGuard
                       /\ IF ErasedNow /\ Read = "fault"
                          THEN pc' = "lu_fault" /\ UNCHANGED <<cur, Remarks>>
                          ELSE /\ Remarks' = Append(Remarks, emitRemark(l, Res # "Unmodified"))
                               /\ cur' = cur + 1
                               /\ UNCHANGED pc
    /\ UNCHANGED <<F, layout, Fn, Candidates, Statistics, ToDelete, TotalFolded, Pass, Folded,
                   PA, runs, pre, vnVars, elimVars, Config, Analyzed, UnrollCandidates>>

\* run returns its preserved analyses
UnrollingReturns ==
    /\ pc = "lu_unroll" /\ cur > Len(UnrollCandidates)
    /\ PA' = IF Changed THEN "dt" ELSE "all"
    /\ pc' = "lu_done"
    /\ UNCHANGED <<F, layout, Fn, cur, Candidates, Statistics, ToDelete, Changed,
                   TotalFolded, Pass, Folded, runs, pre, vnVars, elimVars, loopVars>>

NextLoop ==
    \/ NoLoops
    \/ AnalyzeNext
    \/ CandidatesCollected
    \/ \E Res \in {"Unmodified", "PartiallyUnrolled", "FullyUnrolled"},
          Gone \in SUBSET DOMAIN Loops, Read \in ReadOutcomes :
            UnrollNext(Res, Gone, Read)
    \/ UnrollingReturns

SpecLoop == InitLoop /\ [][NextLoop]_vars

-----------------------------------------------------------------------------
(* Strategy selection *)

\* the decision list over a candidate record, in the integers
DecisionList(c, Cfg) ==
    IF c.HasSideEffects /\ ~Cfg.UnrollLoopsWithCalls THEN "NoUnroll"
    ELSE IF /\ c.TripCount > 0
            /\ c.TripCount <= Cfg.FullUnrollMaxCount
            /\ c.TripCount * c.InstructionCount <= Cfg.FullUnrollMaxInstructions
         THEN "FullUnroll"
    ELSE IF c.TripCount > 0 THEN "PartialUnroll"
    ELSE IF Cfg.AllowRuntimeUnroll /\ c.IsSimple THEN "RuntimeUnroll"
    ELSE "NoUnroll"

FollowsDecisionList(c) ==
    /\ c.Strategy = DecisionList(c, Config)
    /\ c.Strategy = "FullUnroll" => c.UnrollFactor = c.TripCount
    /\ c.Strategy = "RuntimeUnroll" => c.UnrollFactor = Config.PartialUnrollFactor

\* C17: the strategy of every analyzed candidate is the one the decision list
\* gives for its record and the configuration (side effects without allowed
\* calls: NoUnroll; known trip count within the count and size limits:
\* FullUnroll with the trip count as factor; other known trip count:
\* PartialUnroll; unknown trip count with runtime unrolling allowed on a loop
\* with preheader and latch: RuntimeUnroll with the partial factor; else NoUnroll)
C17_StrategyIsDecisionList ==
    \A i \in DOMAIN Analyzed : FollowsDecisionList(Analyzed[i])

\* the same for the candidates whose size product fits in `unsigned`
C17_HoldsWithoutWrap ==
    \A i \in DOMAIN Analyzed :
        Analyzed[i].TripCount * Analyzed[i].InstructionCount < UModulus
            => FollowsDecisionList(Analyzed[i])

\* the named instances: trip count FullUnrollMaxCount with a small body is
\* fully unrolled, FullUnrollMaxCount + 1 is not, and an unknown trip count
\* without runtime unrolling is not unrolled
C17_NamedInstances ==
    \A i \in DOMAIN Analyzed :
        LET c == Analyzed[i] IN
        /\ (/\ (~c.HasSideEffects \/ Config.UnrollLoopsWithCalls)
            /\ c.TripCount = Config.FullUnrollMaxCount
            /\ c.TripCount * c.InstructionCount <= Config.FullUnrollMaxInstructions)
              => c.Strategy = "FullUnroll" /\ c.UnrollFactor = c.TripCount
        /\ c.TripCount = Config.FullUnrollMaxCount + 1 => c.Strategy # "FullUnroll"
        /\ (c.TripCount = 0 /\ ~Config.AllowRuntimeUnroll) => c.Strategy = "NoUnroll"

-----------------------------------------------------------------------------
(* The partial unroll factor *)

Qualifies(Fac, c, Cfg) ==
    /\ c.TripCount % Fac = 0
    /\ Fac * c.InstructionCount <= Cfg.MaxUnrolledSize

LargestQualifying(c, Cfg) ==
    LET S == {Fac \in 2..Cfg.PartialUnrollFactor : Qualifies(Fac, c, Cfg)}
    IN  IF S = {} THEN 1 ELSE CHOOSE Fac \in S : \A G \in S : G <= Fac

\* C18: the factor of every PartialUnroll candidate is the largest F up to
\* PartialUnrollFactor that both divides the trip count and keeps F times the
\* instruction count within MaxUnrolledSize, and 1 if there is no such F >= 2
C18_PartialFactorIsLargestQualifying ==
    \A i \in DOMAIN Analyzed :
        Analyzed[i].Strategy = "PartialUnroll"
            => Analyzed[i].UnrollFactor = LargestQualifying(Analyzed[i], Config)

\* the named instance: trip count 16, partial factor 4, a body that fits
C18_NamedInstance ==
    \A i \in DOMAIN Analyzed :
        LET c == Analyzed[i] IN
        (/\ c.Strategy = "PartialUnroll" /\ c.TripCount = 16
         /\ Config.PartialUnrollFactor = 4
         /\ 4 * c.InstructionCount <= Config.MaxUnrolledSize)
            => c.UnrollFactor = 4

\* the factor the code returns does divide the trip count whenever the size
\* limit took nothing away from it
C18_HoldsWhenBodyFits ==
    \A i \in DOMAIN Analyzed :
        LET c == Analyzed[i] IN
        (/\ c.Strategy = "PartialUnroll"
         /\ Config.PartialUnrollFactor * c.InstructionCount <= Config.MaxUnrolledSize)
            => c.UnrollFactor = LargestQualifying(c, Config)

-----------------------------------------------------------------------------
(* Loops for which no partial factor qualifies *)

NoFactorQualifies(c) ==
    c.TripCount > 0 /\ c.Strategy = "PartialUnroll" /\ c.UnrollFactor = 1

\* C19: a loop with known trip count whose computed partial factor is 1 is
\* treated as NoUnroll: it is no unroll candidate, the unroll primitive is
\* never invoked for it, and when the function has no other loop nothing is
\* counted as partially unrolled or skipped
C19_FactorOneIsNoUnroll ==
    \A i \in DOMAIN Analyzed :
        NoFactorQualifies(Analyzed[i]) =>
            /\ \A j \in DOMAIN UnrollCandidates : UnrollCandidates[j].L # Analyzed[i].L
            /\ \A j \in DOMAIN Invoked : Invoked[j].L # Analyzed[i].L
            /\ Len(Loops) = 1 =>
                  LoopStats.LoopsPartiallyUnrolled = 0 /\ LoopStats.LoopsSkipped = 0

-----------------------------------------------------------------------------
(* Calls to memory-pure functions *)

SinglePureCall(L) ==
    /\ L.Body["call_pure"] = 1
    /\ L.Body["call_indirect"] = 0 /\ L.Body["call_mem"] = 0
    /\ L.Body["volatile"] = 0 /\ L.Body["atomic"] = 0

\* C20: a loop whose body has a single call, to a known function that does
\* not access memory, and no volatile or atomic instruction, analyzed with
\* UnrollLoopsWithCalls = false, gets the strategy NoUnroll for every trip count
C20_PureCallIsNoUnroll ==
    \A i \in DOMAIN Analyzed :
        (SinglePureCall(Loops[Analyzed[i].L]) /\ ~Config.UnrollLoopsWithCalls)
            => Analyzed[i].Strategy = "NoUnroll"

\* a call that is indirect or to a function that may access memory does
\* block unrolling
C20_OtherCallsAreNoUnroll ==
    \A i \in DOMAIN Analyzed :
        LET L == Loops[Analyzed[i].L] IN
        ((L.Body["call_indirect"] > 0 \/ L.Body["call_mem"] > 0)
           /\ ~Config.UnrollLoopsWithCalls)
            => Analyzed[i].Strategy = "NoUnroll"

-----------------------------------------------------------------------------
(* Loops without preheader or without unique latch *)

\* C21: every analyzed loop that lacks a preheader or a unique latch gets the
\* strategy NoUnroll, whatever its trip count and the configuration
C21_NonCanonicalIsNoUnroll ==
    \A i \in DOMAIN Analyzed :
        ~isSimpleLoop(Loops[Analyzed[i].L]) => Analyzed[i].Strategy = "NoUnroll"

\* the same for the loops whose trip count is unknown
C21_HoldsForUnknownTripCount ==
    \A i \in DOMAIN Analyzed :
        (~isSimpleLoop(Loops[Analyzed[i].L]) /\ Analyzed[i].TripCount = 0)
            => Analyzed[i].Strategy = "NoUnroll"

-----------------------------------------------------------------------------
(* The order of the loops of a nest *)

\* C22: in every nest a loop nested inside L is analyzed before L, and its
\* unrolling is attempted before that of L
C22_InnermostFirst ==
    /\ \A i, j \in DOMAIN Analyzed :
          Encloses(Loops, Analyzed[i].L, Analyzed[j].L, Len(Loops)) => j < i
    /\ \A i, j \in DOMAIN Invoked :
          Encloses(Loops, Invoked[i].L, Invoked[j].L, Len(Loops)) => j < i

\* what the code does: each loop is analyzed after the loops around it, and
\* every loop is analyzed before the first unrolling
C22_OutermostFirst ==
    /\ \A i, j \in DOMAIN Analyzed :
          Encloses(Loops, Analyzed[i].L, Analyzed[j].L, Len(Loops)) => i < j
    /\ Invoked # <<>> => Len(Analyzed) = Len(Loops)

-----------------------------------------------------------------------------
(* The validity guard *)

\* C23: UnrollLoop is never invoked on a loop that an earlier unrolling of
\* the run has dissolved, whatever loop still contains its header block, and
\* no field of a dissolved loop is read
C23_ValidityGuard ==
    /\ \A j \in DOMAIN Invoked : Invoked[j].Found = Invoked[j].L
    /\ StaleReads = <<>>

\* the guard as the code has it: UnrollLoop is invoked only when the header
\* block is in some loop
C23_InvokedOnlyInsideALoop ==
    \A j \in DOMAIN Invoked : Invoked[j].Found # 0

\* a loop no unrolling has touched is read and unrolled as the claim says
C23_HoldsBeforeAnyErasure ==
    (\A l \in DOMAIN Loops : Loops[l].InLoopInfo) => C23_ValidityGuard

-----------------------------------------------------------------------------
(* Refusals of the unroll primitive *)

Succeeded(j) == Invoked[j].Result # "Unmodified"

RemarksMatchInvocations ==
    /\ Len(Remarks) = Len(Invoked)
    /\ \A j \in DOMAIN Invoked :
          /\ Remarks[j].L = Invoked[j].L
          /\ Remarks[j].Kind = IF Succeeded(j) THEN "Unrolled" ELSE "NotUnrolled"

RefusalsAreSkipped ==
    /\ LoopStats.LoopsSkipped = Cardinality({j \in DOMAIN Invoked : ~Succeeded(j)})
    /\ \A j \in DOMAIN Invoked :
          (~Succeeded(j) /\ Invoked[j].Found = Invoked[j].L
             /\ \A k \in DOMAIN Invoked : Succeeded(k) => Invoked[k].L # Invoked[j].L
                                             /\ Invoked[j].L \notin NestedIn(Loops, Invoked[k].L))
            => Loops[Invoked[j].L].InLoopInfo

ReportsChange ==
    pc = "lu_done" /\ Analyzed # <<>> /\ UnrollCandidates # <<>> =>
        /\ cur > Len(UnrollCandidates)
        /\ PA = IF \E j \in DOMAIN Invoked : Succeeded(j) THEN "dt" ELSE "all"

\* C24: every invocation of UnrollLoop is followed by exactly one remark, a
\* success remark iff a modification was reported; a refusal leaves the loop
\* in place and counts as skipped; the candidates after it are processed; the
\* pass preserves only the dominator tree iff some candidate succeeded and
\* all analyses otherwise
C24_RefusalIsNotFatal ==
    /\ RemarksMatchInvocations
    /\ RefusalsAreSkipped
    /\ ReportsChange
    /\ pc # "lu_fault"

\* the same in the runs in which no read of a dissolved loop faults
C24_HoldsWithoutFault ==
    pc # "lu_fault" => RemarksMatchInvocations /\ RefusalsAreSkipped /\ ReportsChange

\* a refusal followed by a success
C24_RefusalThenSuccess ==
    /\ pc = "lu_done" /\ Len(Invoked) = 2
    /\ ~Succeeded(1) /\ Succeeded(2)
    /\ PA = "dt" /\ LoopStats.LoopsSkipped = 1

-----------------------------------------------------------------------------
(* The iterations of the do/while loop of the constant folder *)

PassOf(h) == Folded[CHOOSE i \in DOMAIN Folded : Folded[i].I = h].Pass

FoldedInstructions == {Folded[i].I : i \in DOMAIN Folded}

\* the folded instructions that were operands of h when the run began
FoldedOperands(h) ==
    {c \in FoldedInstructions : \E k \in DOMAIN pre.F[h].ops : pre.F[h].ops[k] = Ref(c)}

Precedes(c, d) == PositionOf(pre.layout, c) < PositionOf(pre.layout, d)

Max(S) == CHOOSE x \in S : \A y \in S : y <= x

\* C25: a chain is folded one link per iteration: an instruction is folded
\* only in an iteration at whose beginning all its operands were constants,
\* so a user d of a folded instruction c is folded in the iteration after the
\* one that folded the last of its operands, never in the same one
C25_OneLinkPerPass ==
    \A d \in FoldedInstructions :
        FoldedOperands(d) # {} =>
            PassOf(d) = 1 + Max({PassOf(c) : c \in FoldedOperands(d)})

\* what the code does when the definition comes first in the traversal: the
\* user is folded in the same iteration
C25_SamePassWhenDefinitionFirst ==
    \A d \in FoldedInstructions : \A c \in FoldedOperands(d) :
        Precedes(c, d) => PassOf(d) <= PassOf(c)

\* when the user comes first in the traversal it is folded one iteration later
C25_HoldsWhenUserFirst ==
    \A d \in FoldedInstructions :
        (FoldedOperands(d) # {} /\ \A c \in FoldedOperands(d) : Precedes(d, c)) =>
            PassOf(d) = 1 + Max({PassOf(c) : c \in FoldedOperands(d)})

-----------------------------------------------------------------------------
(* Mutation and traversal in the constant folder *)

Traversing == pc \in {"visit", "sweep"} /\ cur <= Len(layout)

\* C26: while the instruction list of a block is being traversed nothing is
\* mutated: no use is redirected and no instruction is erased by a step of a
\* traversal, in the collection of the candidates as in the folding loop
C26_NoMutationDuringTraversal ==
    [][ Traversing => (F' = F /\ layout' = layout) ]_vars

\* the collection of the candidates mutates nothing, and no step of a
\* traversal erases an instruction
C26_HoldsForCollectionAndErasure ==
    [][ /\ (pc = "visit" /\ cur <= Len(layout)) => (F' = F /\ layout' = layout)
        /\ Traversing => layout' = layout ]_vars

-----------------------------------------------------------------------------
(* Termination of the do/while loop of the constant folder *)

\* an iteration that set Changed erases an instruction, none creates one,
\* and the iteration after which the loop is left changed nothing
PassesShrinkTheFunction ==
    [][ /\ Len(layout') <= Len(layout)
        /\ DOMAIN F' = DOMAIN F
        /\ (pc = "sweep" /\ cur > Len(layout) /\ Changed) => Len(layout') < Len(layout)
        /\ (pc = "sweep" /\ pc' = "done") => (~Changed /\ ToDelete = <<>> /\ layout' = layout)
      ]_vars

\* C28: the fixed-point loop terminates on every function: an iteration that
\* sets Changed erases at least one instruction and none creates one, so
\* there are at most as many iterations as instructions plus one, the last
\* of which changes nothing, and every run returns
C28_FoldTerminates ==
    /\ PassesShrinkTheFunction
    /\ [](Pass <= Len(pre.layout) + 1)
    /\ (pc # "done") ~> (pc = "done")

\* a run has returned after two iterations that changed the function and one
\* that did not
C28_Witness ==
    pc = "done" /\ Pass >= 3 /\ Len(layout) < Len(pre.layout)

-----------------------------------------------------------------------------
(* The traversal of the analysis and the expression table *)

\* instruction P strictly dominates instruction R: its block strictly
\* dominates R's, or it precedes R in R's block
StrictlyDominates(P, R) ==
    \/ StrictlyDominatesBlock(F[P].bb, F[R].bb)
    \/ /\ F[P].bb = F[R].bb
       /\ PositionOf(layout, P) < PositionOf(layout, R)

\* the instructions of the reachable blocks
Reachable == {h \in Linked : F[h].bb \in ReachableBlocks(Fn)}

\* C27: the blocks are processed in dominator-tree preorder and their
\* instructions top to bottom: when an instruction I has been processed,
\* every instruction that strictly dominates I has been processed before it
\* (it is numbered and, if analyzable, in the table or recorded redundant),
\* and if an analyzable instruction with the key of I strictly dominates I
\* then I is recorded redundant
C27_DominatorsProcessedFirst ==
    pc \in {"ra_blocks", "ra_done"} =>
        \A I \in Visited : \A J \in Reachable :
            StrictlyDominates(J, I) =>
                /\ J \in Visited
                /\ PositionOf(ProcessingOrder(F, layout, Fn.preorder), J)
                      < PositionOf(ProcessingOrder(F, layout, Fn.preorder), I)
                /\ lookupValueNumber(VNT, Ref(J)) # 0
                /\ isAnalyzable(F[J]) =>
                      /\ J \in InExpressionTable \/ J \in DOMAIN Redundant
                      /\ (isAnalyzable(F[I]) /\ KeyOf(J) = KeyOf(I))
                            => I \in DOMAIN Redundant

\* the analysis has returned and recorded an instruction redundant to one of
\* a dominating block and another to one of its own block
C27_Witness ==
    /\ pc = "ra_done"
    /\ \E R \in DOMAIN Redundant : F[Redundant[R]].bb # F[R].bb
    /\ \E R \in DOMAIN Redundant : F[Redundant[R]].bb = F[R].bb

-----------------------------------------------------------------------------
(* The redundancy map of one analysis run *)

Replacements == {Redundant[R] : R \in DOMAIN Redundant}

\* C29: the map of one analysis run has no chain: no instruction is both a
\* key and a value of it; every replacement is in the expression table, and
\* every analyzable instruction processed is either a key of the map or in
\* the expression table, never both
C29_NoChains ==
    pc \in {"ra_blocks", "ra_done"} =>
        /\ DOMAIN Redundant \cap Replacements = {}
        /\ Replacements \subseteq InExpressionTable
        /\ \A h \in Visited :
              isAnalyzable(F[h]) => ((h \in DOMAIN Redundant) # (h \in InExpressionTable))
        /\ \A h \in Visited :
              ~isAnalyzable(F[h]) => (h \notin DOMAIN Redundant /\ h \notin InExpressionTable)

\* the analysis has returned with two instructions recorded redundant to the
\* same replacement
C29_Witness ==
    /\ pc = "ra_done"
    /\ \E R1, R2 \in DOMAIN Redundant : R1 # R2 /\ Redundant[R1] = Redundant[R2]

-----------------------------------------------------------------------------
(* The buckets of the expression table *)

Bucket(k) == VNT.ExpressionTable[k]

BucketEntries(k) == {Bucket(k)[i] : i \in DOMAIN Bucket(k)}

Scan(order, k) == [i \in DOMAIN order |-> Bucket(k)[order[i]]]

\* C30: no two instructions of one bucket dominate one another, so at most
\* one entry of a bucket dominates a query instruction with that key, and
\* findAvailableValue returns the same instruction in whatever order the
\* bucket is scanned
C30_UniqueProvider ==
    \A k \in DOMAIN VNT.ExpressionTable :
        /\ \A A, B \in BucketEntries(k) : A # B => ~StrictlyDominates(A, B)
        /\ \A Q \in Reachable :
              (isAnalyzable(F[Q]) /\ KeyOf(Q) = k) =>
                 /\ Cardinality({A \in BucketEntries(k) : StrictlyDominates(A, Q)}) <= 1
                 /\ \A order \in Orderings(DOMAIN Bucket(k)) :
                       firstAvailable(Scan(order, k), Q, Fn, F, layout)
                          = findAvailableValue(VNT, k, Q, Fn, F, layout)

\* a bucket holds two instructions, and of two instructions with its key one
\* is dominated by one of them and the other by none
C30_Witness ==
    \E k \in DOMAIN VNT.ExpressionTable :
        /\ Len(Bucket(k)) >= 2
        /\ \E Q \in Reachable :
              /\ isAnalyzable(F[Q]) /\ KeyOf(Q) = k /\ Q \notin BucketEntries(k)
              /\ \E A \in BucketEntries(k) : StrictlyDominates(A, Q)

-----------------------------------------------------------------------------
(* The specifications together *)

Init == InitFold \/ InitRA \/ InitVNT \/ InitBuilt \/ InitLoop
Next == NextFold \/ NextRA \/ NextVNT \/ NextPipe \/ NextLoop
Spec == Init /\ [][Next]_vars

=============================================================================
